---- MODULE Spec2Model ----
(***************************************************************************)
(* Verification model of the Firestore extension for DuckDB                *)
(* (BorisBesky/fire_duck_ext): the filter-pushdown planner                 *)
(* (firestore_index.cpp), the scan executor (firestore_scanner.cpp), the   *)
(* write functions (firestore_writer.cpp), token refresh and requests      *)
(* (firestore_auth.cpp, firestore_client.cpp), the schema cache            *)
(* (firestore_scanner.cpp), credential resolution (firestore_secrets.cpp), *)
(* the error taxonomy (firestore_error.hpp) and the value codec            *)
(* (firestore_types.cpp).                                                  *)
(*                                                                         *)
(* The state machines share the variables below; each has its own          *)
(* specification (SpecPushdown, SpecInLimit, SpecScan, SpecWrite, SpecAuth,*)
(* SpecCache, SpecCreds, SpecResolve) that keeps the other machines'       *)
(* variables at rest.  The functions of one call (document ids, error      *)
(* classification, the codec) run under SpecDocumentId, SpecHandleError    *)
(* and SpecCodec on the variables input and output, as do the filter       *)
(* classes (SpecClassify) and schema inference (SpecInfer).  SpecQuery     *)
(* explores the structured queries of filtered scans, SpecScanLive is      *)
(* SpecScan with weak fairness, SpecWritePath the document paths of the    *)
(* write functions.  Functions run by several sessions at once have their  *)
(* own machines: SpecSecretLock (the credential cache's mutex), SpecAppend *)
(* (array_append) and SpecSessions (the connected database).               *)
(*                                                                         *)
(* Sizes.  The source batches writes by 500, pages by 1000 and fills       *)
(* chunks of STANDARD_VECTOR_SIZE = 2048 rows.  The model keeps the        *)
(* source's names for these numbers but small values, with the source's    *)
(* order between them (BATCH_SIZE > 1, chunk > 2 pages), so that several   *)
(* batches, pages and chunks occur within the explored collections.        *)
(***************************************************************************)
EXTENDS Integers, Sequences, FiniteSets, TLC

VARIABLES
    \* ---- planner / bind (firestore_scanner.hpp FirestoreScanBindData) ----
    filters,        \* the host's filter-expression vector handed to the hook
    bind_data,      \* FirestoreScanBindData
    server_indexes, \* the admin API's composite index list and default flag
    get,            \* the host's LogicalGet: column_ids and extra_info
    phase,          \* position of the scan's callbacks: bind, hook, init, pulls
    \* ---- scan executor (FirestoreScanGlobalState) ----
    global_state,   \* FirestoreScanGlobalState
    service,        \* the remote collection: number of documents, matching set
    requests,       \* history: every remote request issued, in order
    fetched,        \* history: documents of every page the service returned
    emitted,        \* history: rows of every output chunk handed to the host
    \* ---- write functions (firestore_writer.cpp) ----
    wr,             \* state of the running write function
    remote,         \* the remote's answers to write requests
    wlog,           \* history: every write request issued, in order
    wout,           \* history: rows emitted by the write function
    \* ---- token refresh and requests (firestore_auth.cpp, firestore_client.cpp) ----
    credentials,    \* the shared FirestoreCredentials record
    callers,        \* each thread's position inside MakeRequest
    authlog,        \* history: token exchanges, requests sent, unsynchronised accesses
    \* ---- schema cache (firestore_scanner.cpp) ----
    schema_cache,   \* the process-wide map cache_key -> CachedSchemaEntry
    now,            \* the clock, in seconds
    ttl,            \* the firestore_schema_cache_ttl setting
    firestore,      \* the remote collections: documents per (project, collection)
    bindlog,        \* history: outcome of every bind and clear_cache call
    \* ---- credential resolution (firestore_secrets.cpp) ----
    credentials_cache,  \* the process-wide map cache_key -> credential record
    secret_store,       \* the secret manager, the environment, the connected database
    resolved,           \* history: outcome of every credential resolution
    \* ---- functions of one call (firestore_client.cpp, firestore_types.cpp) ----
    input,              \* the arguments of the call under way
    output,             \* what the call has produced so far
    \* ---- threads inside one function at the same time ----
    threads,                  \* each thread's position and locals
    credentials_cache_mutex,  \* the thread that owns the credential cache's mutex, 0 when free
    stored_document,          \* the document the array functions write, as the server holds it
    connected_databases       \* the connected database of each session that has one

pushVars  == <<filters, bind_data, server_indexes, get, phase>>
scanVars  == <<global_state, service, requests, fetched, emitted>>
writeVars == <<wr, remote, wlog, wout>>
authVars  == <<credentials, callers, authlog>>
cacheVars == <<schema_cache, now, ttl, firestore, bindlog>>
credVars  == <<credentials_cache, secret_store, resolved>>
callVars  == <<input, output>>
lockVars  == <<threads, credentials_cache_mutex, stored_document, connected_databases>>
restVars  == <<authVars, cacheVars, credVars, callVars, lockVars>>
vars      == <<filters, bind_data, server_indexes, get, phase, global_state, service,
               requests, fetched, emitted, wr, remote, wlog, wout,
               credentials, callers, authlog, schema_cache, now, ttl, firestore, bindlog,
               credentials_cache, secret_store, resolved, input, output,
               threads, credentials_cache_mutex, stored_document, connected_databases>>

----------------------------------------------------------------------------
(* Bounds of the explored inputs *)

MaxExprs == 2        \* length of the host's filter-expression vector
MaxIndexes == 1      \* composite indexes the admin API lists
MaxDocs == 6         \* documents in the scanned collection
MaxLimit == 4        \* largest limit := L explored
MaxIds == 5          \* ids of update_batch/delete_batch, rows of insert

(* Sizes of the source, scaled (see the header) *)
BATCH_SIZE == 2             \* 500 in firestore_writer.cpp
MAX_PAGE_SIZE == 2          \* 1000 in firestore_scanner.cpp / FirestoreQuery
STANDARD_VECTOR_SIZE == 5   \* 2048, DuckDB's chunk capacity

(* Firestore's limit on the values of an IN filter *)
IN_LIMIT == 30

NoLimit == -1   \* bind_data.limit has no value

----------------------------------------------------------------------------
(* Sequence helpers *)

Last(s) == s[Len(s)]

Min2(a, b) == IF a <= b THEN a ELSE b

RECURSIVE SelectFrom(_, _, _)
\* the subsequence of s, in order, of the elements whose index is in keep
SelectFrom(s, keep, i) ==
    IF i > Len(s) THEN <<>>
    ELSE (IF i \in keep THEN <<s[i]>> ELSE <<>>) \o SelectFrom(s, keep, i + 1)

Select(s, keep) == SelectFrom(s, keep, 1)

RECURSIVE TakeAscending(_, _)
\* the k smallest members of the set of integers S, ascending
TakeAscending(S, k) ==
    IF k <= 0 \/ S = {} THEN <<>>
    ELSE LET m == CHOOSE x \in S : \A y \in S : x <= y
         IN <<m>> \o TakeAscending(S \ {m}, k - 1)

SeqsUpTo(S, n) == UNION {[1..k -> S] : k \in 0..n}

----------------------------------------------------------------------------
(* Filter pushdown planner: firestore_index.cpp *)

\* bind-time column names; column 0 is the synthetic __document_id
FieldNames == <<"a", "b", "c">>
Fields == {FieldNames[i] : i \in 1..Len(FieldNames)}

\* std::set<std::string> iterates in lexicographic order
FieldRank(f) == CHOOSE i \in 1..Len(FieldNames) : FieldNames[i] = f
FirstField(S) == CHOOSE f \in S : \A g \in S : FieldRank(f) <= FieldRank(g)

\* FirestorePushdownFilter; the value payload is abstracted to the number of
\* IN values
PushdownFilter(field, op, eq) ==
    [field_path |-> field, firestore_op |-> op, is_unary |-> FALSE,
     unary_op |-> "", is_in_filter |-> FALSE, in_values |-> 0,
     is_equality |-> eq]

UnaryFilter(field, uop) ==
    [field_path |-> field, firestore_op |-> "", is_unary |-> TRUE,
     unary_op |-> uop, is_in_filter |-> FALSE, in_values |-> 0,
     is_equality |-> TRUE]

InFilter(field, k) ==
    [field_path |-> field, firestore_op |-> "IN", is_unary |-> FALSE,
     unary_op |-> "", is_in_filter |-> TRUE, in_values |-> k,
     is_equality |-> TRUE]

\* Host expressions.  type is DuckDB's ExpressionType; column_index is the
\* binding's position in the LogicalGet's column_ids; reversed says the
\* constant is the left operand.
Cmp(type, col, rev) ==
    [class |-> "BOUND_COMPARISON", type |-> type, column_index |-> col,
     reversed |-> rev, children |-> <<>>]
NullTest(type, col) ==
    [class |-> "BOUND_OPERATOR", type |-> type, column_index |-> col,
     reversed |-> FALSE, children |-> <<>>]
Conj(type, kids) ==
    [class |-> "BOUND_CONJUNCTION", type |-> type, column_index |-> 0,
     reversed |-> FALSE, children |-> kids]
\* resolve_column: the field a column reference names, "" when not pushable
ResolveColumn(col, column_id_map) ==
    IF col + 1 > Len(column_id_map) THEN ""
    ELSE LET original_col_idx == column_id_map[col + 1]
         IN IF original_col_idx = 0 THEN ""
            ELSE IF original_col_idx > Len(FieldNames) THEN ""
            ELSE FieldNames[original_col_idx]

\* the flip of a comparison whose constant is on the left
FlipComparison(type) ==
    CASE type = "COMPARE_LESSTHAN" -> "COMPARE_GREATERTHAN"
      [] type = "COMPARE_LESSTHANOREQUALTO" -> "COMPARE_GREATERTHANOREQUALTO"
      [] type = "COMPARE_GREATERTHAN" -> "COMPARE_LESSTHAN"
      [] type = "COMPARE_GREATERTHANOREQUALTO" -> "COMPARE_LESSTHANOREQUALTO"
      [] OTHER -> type

\* the switch on cmp_type of ConvertExpressionToFilters
ComparisonFilter(field, cmp_type) ==
    CASE cmp_type = "COMPARE_EQUAL" -> <<PushdownFilter(field, "EQUAL", TRUE)>>
      [] cmp_type = "COMPARE_NOTEQUAL" -> <<PushdownFilter(field, "NOT_EQUAL", TRUE)>>
      [] cmp_type = "COMPARE_LESSTHAN" -> <<PushdownFilter(field, "LESS_THAN", FALSE)>>
      [] cmp_type = "COMPARE_LESSTHANOREQUALTO" ->
            <<PushdownFilter(field, "LESS_THAN_OR_EQUAL", FALSE)>>
      [] cmp_type = "COMPARE_GREATERTHAN" -> <<PushdownFilter(field, "GREATER_THAN", FALSE)>>
      [] cmp_type = "COMPARE_GREATERTHANOREQUALTO" ->
            <<PushdownFilter(field, "GREATER_THAN_OR_EQUAL", FALSE)>>
      [] OTHER -> <<>>

\* C24 mutant: the size test rejects a list of exactly IN_LIMIT values
OrToInRejectsAtLimit(kids, column_id_map) ==
    IF kids = <<>> THEN <<>>
    ELSE LET common_field == ResolveColumn(kids[1].column_index, column_id_map)
             ok(k) == /\ k.class = "BOUND_COMPARISON"
                      /\ k.type = "COMPARE_EQUAL"
                      /\ ResolveColumn(k.column_index, column_id_map) # ""
                      /\ ResolveColumn(k.column_index, column_id_map) = common_field
         IN IF \E i \in 1..Len(kids) : ~ok(kids[i]) THEN <<>>
            ELSE IF Len(kids) >= IN_LIMIT THEN <<>>
            ELSE <<InFilter(common_field, Len(kids))>>

\* the OR branch: a disjunction of equalities on one column becomes one IN
OrToIn(kids, column_id_map) ==
    IF kids = <<>> THEN <<>>
    ELSE LET common_field == ResolveColumn(kids[1].column_index, column_id_map)
             ok(k) == /\ k.class = "BOUND_COMPARISON"
                      /\ k.type = "COMPARE_EQUAL"
                      /\ ResolveColumn(k.column_index, column_id_map) # ""
                      /\ ResolveColumn(k.column_index, column_id_map) = common_field
         IN IF \E i \in 1..Len(kids) : ~ok(kids[i]) THEN <<>>
            ELSE IF Len(kids) > IN_LIMIT THEN <<>>
            ELSE <<InFilter(common_field, Len(kids))>>

RECURSIVE ConvertExpressionToFilters(_, _)
ConvertExpressionToFilters(expr, column_id_map) ==
    LET RECURSIVE ConvertChildren(_, _)
        ConvertChildren(kids, i) ==
            IF i > Len(kids) THEN <<>>
            ELSE ConvertExpressionToFilters(kids[i], column_id_map)
                     \o ConvertChildren(kids, i + 1)
        field == ResolveColumn(expr.column_index, column_id_map)
    IN CASE expr.type = "CONJUNCTION_AND" -> ConvertChildren(expr.children, 1)
         [] expr.type = "CONJUNCTION_OR" -> OrToIn(expr.children, column_id_map)
         [] expr.type \in {"OPERATOR_IS_NULL", "OPERATOR_IS_NOT_NULL"} ->
               IF field = "" THEN <<>>
               ELSE <<UnaryFilter(field, IF expr.type = "OPERATOR_IS_NULL"
                                         THEN "IS_NULL" ELSE "IS_NOT_NULL")>>
         [] expr.class = "BOUND_COMPARISON" ->
               IF field = "" THEN <<>>
               ELSE ComparisonFilter(field, IF expr.reversed
                                            THEN FlipComparison(expr.type)
                                            ELSE expr.type)
         [] OTHER -> <<>>

\* FirestoreIndex and FirestoreIndexCache
Index(fields, scope, state) ==
    [fields |-> fields, query_scope |-> scope, state |-> state]

IndexCache(composite, single, dflt, ok) ==
    [composite_indexes |-> composite, single_field_indexes |-> single,
     default_single_field_enabled |-> dflt, fetch_succeeded |-> ok]

HasSingleFieldIndex(field_path, cache, scope) ==
    \/ cache.default_single_field_enabled
    \/ \E i \in 1..Len(cache.single_field_indexes) :
          LET idx == cache.single_field_indexes[i]
          IN /\ idx.query_scope = scope
             /\ idx.state = "READY"
             /\ Len(idx.fields) = 1
             /\ idx.fields[1] = field_path

FindMatchingCompositeIndex(eq_fields, range_field, cache, scope) ==
    \E i \in 1..Len(cache.composite_indexes) :
       LET idx == cache.composite_indexes[i]
           idx_fields == {idx.fields[k] : k \in 1..Len(idx.fields)} \ {"__name__"}
       IN /\ idx.query_scope = scope
          /\ idx.state = "READY"
          /\ eq_fields \subseteq idx_fields
          /\ range_field \in idx_fields

\* the split of MatchFiltersToIndexes into its two lists
IsEqualityCandidate(f) == f.is_equality \/ f.is_unary

RequiredScope(is_collection_group) ==
    IF is_collection_group THEN "COLLECTION_GROUP" ELSE "COLLECTION"

\* the two lists, each in candidate order
EqualityFilters(candidate_filters) ==
    Select(candidate_filters,
           {i \in 1..Len(candidate_filters) : IsEqualityCandidate(candidate_filters[i])})

RangeFilters(candidate_filters) ==
    Select(candidate_filters,
           {i \in 1..Len(candidate_filters) : ~IsEqualityCandidate(candidate_filters[i])})

MatchFiltersToIndexes(candidate_filters, index_cache, is_collection_group) ==
    LET required_scope == RequiredScope(is_collection_group)
        all == 1..Len(candidate_filters)
        equality_filters == EqualityFilters(candidate_filters)
        range_filters == RangeFilters(candidate_filters)
        IndexedEq ==
            Select(equality_filters,
                   {i \in 1..Len(equality_filters) :
                       HasSingleFieldIndex(equality_filters[i].field_path, index_cache,
                                           required_scope)})
        RangeOn(field) ==
            Select(range_filters,
                   {i \in 1..Len(range_filters) : range_filters[i].field_path = field})
        eq_field_set == {equality_filters[i].field_path : i \in 1..Len(equality_filters)}
        range_fields == {range_filters[i].field_path : i \in 1..Len(range_filters)}
        first_field == FirstField(range_fields)
    IN IF ~index_cache.fetch_succeeded THEN <<>>
       ELSE IF candidate_filters = <<>> THEN <<>>
       \* Case 1: only equality filters
       ELSE IF range_filters = <<>> THEN IndexedEq
       \* Case 2: only range filters
       ELSE IF equality_filters = <<>> THEN
            IF Cardinality(range_fields) = 1
            THEN IF HasSingleFieldIndex(range_filters[1].field_path, index_cache,
                                        required_scope)
                 THEN range_filters
                 ELSE <<>>
            ELSE IF HasSingleFieldIndex(first_field, index_cache, required_scope)
                 THEN RangeOn(first_field)
                 ELSE <<>>
       \* Case 3: equality + range, needs a composite index
       ELSE IF FindMatchingCompositeIndex(eq_field_set, first_field, index_cache,
                                          required_scope)
            THEN equality_filters \o RangeOn(first_field)
            ELSE IndexedEq

----------------------------------------------------------------------------
(* The remote service as the scan sees it.  Documents are named 1..ndocs in *)
(* __name__ order; service.matching are those the pushed where clause keeps. *)

Page(docs, token) == [documents |-> docs, next_page_token |-> token]

\* GET .../documents/{collection}?pageSize=..&pageToken=..: the next page after
\* the token's position, and a token when the page came back full.  A page
\* size of 0 asks for the service's default page size.
ListDocuments(page_size, page_token) ==
    LET size == IF page_size = 0 THEN MAX_PAGE_SIZE ELSE page_size
        docs == TakeAscending({d \in 1..service.ndocs : d > page_token}, size)
    IN Page(docs, IF Len(docs) = size THEN Last(docs) ELSE 0)

\* POST :runQuery with a where clause, orderBy __name__, limit and startAt
\* (cursor after the named document; 0 for none)
RunQuery(structured_query, start_after) ==
    Page(TakeAscending({d \in service.matching : d > start_after},
                       structured_query.limit), 0)

\* POST :runQuery with allDescendants and limit only
CollectionGroupQuery(page_size) ==
    Page(TakeAscending(1..service.ndocs, page_size), 0)

\* the JSON body of a runQuery request: the structured query's clauses and
\* the startAt cursor (<<>> for none)
StructuredQuery(all_descendants, where, limit, order_by) ==
    [allDescendants |-> all_descendants, where |-> where, limit |-> limit,
     orderBy |-> order_by]

NoQuery == StructuredQuery(FALSE, <<>>, 0, <<>>)

Req(op, page_size, cursor, ok, n) ==
    [op |-> op, page_size |-> page_size, cursor |-> cursor, ok |-> ok, ndocs |-> n,
     query |-> NoQuery, startAt |-> <<>>]

\* {"referenceValue": name}
ReferenceValue(name) == [referenceValue |-> name]

\* paginated_query["startAt"] = {values: [cursor_value], before: false}
StartAt(cursor_value) == [values |-> <<cursor_value>>, before |-> FALSE]

\* a runQuery request as sent: the structured query and, on a continuation,
\* its startAt
RunQueryReq(structured_query, start_at, cursor, ok, n) ==
    [Req("run_query", structured_query.limit, cursor, ok, n)
        EXCEPT !.query = structured_query, !.startAt = start_at]

----------------------------------------------------------------------------
(* Scan: bind, pushdown hook, init, pull (firestore_scanner.cpp) *)

IsCollectionGroup(collection) == collection[1] = "~"

Collections == {<<"u">>, <<"~", "u">>}

\* FetchCompositeIndexes keeps the READY indexes only
FetchCompositeIndexes(listed) ==
    Select(listed, {i \in 1..Len(listed) : listed[i].state = "READY"})

\* CheckDefaultSingleFieldIndexes: the admin flag, true when the check fails
CheckDefaultSingleFieldIndexes(check_ok) ==
    IF check_ok THEN server_indexes.default_enabled ELSE TRUE

\* the index cache FirestoreScanBind builds: the admin API's answer, or the
\* optimistic default when the index fetch throws
BindIndexCache(fetch_ok, check_ok) ==
    IF fetch_ok
    THEN IndexCache(FetchCompositeIndexes(server_indexes.listed), <<>>,
                    CheckDefaultSingleFieldIndexes(check_ok), TRUE)
    ELSE IndexCache(<<>>, <<>>, TRUE, TRUE)

FirestoreScanBind(fetch_ok, check_ok) ==
    /\ phase = "start"
    /\ IF service.ndocs = 0
       THEN \* InferSchema returns no columns: NOT_FOUND_COLLECTION
            /\ phase' = "bind_error"
            /\ UNCHANGED bind_data
       ELSE /\ phase' = "bound"
            /\ bind_data' = [bind_data EXCEPT
                                !.index_cache = BindIndexCache(fetch_ok, check_ok)]
    /\ UNCHANGED <<filters, server_indexes, get, scanVars, writeVars, restVars>>

RECURSIVE ConvertAll(_, _, _)
\* the loop of the hook over the host's filter vector
ConvertAll(exprs, column_id_map, i) ==
    IF i > Len(exprs) THEN <<>>
    ELSE ConvertExpressionToFilters(exprs[i], column_id_map)
             \o ConvertAll(exprs, column_id_map, i + 1)

\* C1 mutant: the hook takes the expressions it pushed out of the vector
HostFiltersPushedRemoved(exprs, column_id_map, pushed) ==
    Select(exprs,
           {i \in 1..Len(exprs) :
               LET c == ConvertExpressionToFilters(exprs[i], column_id_map)
               IN \/ c = <<>>
                  \/ \E k \in 1..Len(c) : \A j \in 1..Len(pushed) : pushed[j] # c[k]})

\* what the hook leaves in the host's filter vector: every expression
HostFiltersAfterPushdown(exprs, column_id_map, pushed) == exprs

FirestoreComplexFilterPushdown ==
    /\ phase = "bound"
    /\ phase' = "planned"
    /\ LET converted == ConvertAll(filters, get.column_ids, 1)
           result == MatchFiltersToIndexes(converted, bind_data.index_cache,
                                           IsCollectionGroup(bind_data.collection))
       IN IF ~bind_data.index_cache.fetch_succeeded
          THEN UNCHANGED <<filters, bind_data, get>>
          ELSE /\ bind_data' = [bind_data EXCEPT !.candidate_pushdown_filters = converted]
               /\ get' = [get EXCEPT !.file_filters =
                             IF result # <<>> THEN result ELSE get.file_filters]
               /\ filters' = HostFiltersAfterPushdown(filters, get.column_ids, result)
    /\ UNCHANGED <<server_indexes, scanVars, writeVars, restVars>>

\* the four range operators only
NeedsOrderRangeOnly(f) ==
    ~f.is_unary /\ ~f.is_in_filter
    /\ f.firestore_op \in {"LESS_THAN", "LESS_THAN_OR_EQUAL", "GREATER_THAN",
                           "GREATER_THAN_OR_EQUAL"}

\* the operators that make Firestore require the field in orderBy
NeedsOrder(f) ==
    IF f.is_unary /\ f.unary_op = "IS_NOT_NULL" THEN TRUE
    ELSE IF ~f.is_unary /\ ~f.is_in_filter
         THEN f.firestore_op \in {"LESS_THAN", "LESS_THAN_OR_EQUAL", "GREATER_THAN",
                                  "GREATER_THAN_OR_EQUAL", "NOT_EQUAL"}
         ELSE f.is_in_filter /\ f.firestore_op = "NOT_IN"

\* {"field": {"fieldPath": f}, "direction": d}
OrderClause(field_path, direction) == [fieldPath |-> field_path, direction |-> direction]

RECURSIVE OrderByFields(_, _, _)
\* the orderBy built without a caller order_by: the fields that need an order
\* once each, then __name__
OrderByFields(pushed, i, added_fields) ==
    IF i > Len(pushed) THEN <<OrderClause("__name__", "ASCENDING")>>
    ELSE IF NeedsOrder(pushed[i]) /\ pushed[i].field_path \notin added_fields
         THEN <<OrderClause(pushed[i].field_path, "ASCENDING")>>
                  \o OrderByFields(pushed, i + 1, added_fields \cup {pushed[i].field_path})
         ELSE OrderByFields(pushed, i + 1, added_fields)

NoOrderBy == <<>>   \* bind_data.order_by has no value

\* order_str.find(' '): the position of the first space, 0 for npos.  An
\* order_by string is the sequence of its words and spaces.
FindSpace(order_str) ==
    IF \E i \in 1..Len(order_str) : order_str[i] = " "
    THEN CHOOSE i \in 1..Len(order_str) :
            /\ order_str[i] = " "
            /\ \A j \in 1..(i - 1) : order_str[j] # " "
    ELSE 0

\* the text of a run of words; the explored strings have one word at most
\* on each side of the space
Text(words) == IF words = <<>> THEN "" ELSE words[1]

\* the orderBy built from the caller's order_by: one clause, "field" or
\* "field DESC"
CallerOrderBy(order_str) ==
    LET space_pos == FindSpace(order_str)
        field_name == IF space_pos # 0 THEN Text(SubSeq(order_str, 1, space_pos - 1))
                      ELSE Text(order_str)
        dir_str == IF space_pos # 0
                   THEN Text(SubSeq(order_str, space_pos + 1, Len(order_str)))
                   ELSE ""
        direction == IF dir_str = "DESC" \/ dir_str = "desc" THEN "DESCENDING"
                     ELSE "ASCENDING"
    IN <<OrderClause(field_name, direction)>>

\* sq["orderBy"] of FirestoreScanInitGlobal
OrderBy(order_by, pushed) ==
    IF order_by # NoOrderBy THEN CallerOrderBy(order_by)
    ELSE OrderByFields(pushed, 1, {})

\* page_size = min(limit, 1000), 1000 without a limit
FirstPageSize(limit) ==
    IF limit # NoLimit THEN Min2(limit, MAX_PAGE_SIZE) ELSE MAX_PAGE_SIZE

\* FirestoreScanGlobalState as constructed
NewGlobalState ==
    [documents |-> <<>>, current_index |-> 0, finished |-> FALSE,
     next_page_token |-> 0, pushdown_result |-> <<>>, structured_query |-> NoQuery,
     uses_run_query |-> FALSE, query_page_size |-> MAX_PAGE_SIZE,
     last_page_was_full |-> TRUE]

\* C29 mutant: every page counts as full, a short one too
PageWasFullAlways(ndocs, query_page_size) == TRUE

\* last_page_was_full: the page holds at least the documents asked for
PageWasFull(ndocs, query_page_size) == ndocs >= query_page_size

\* the unfiltered first fetch: collection-group query or list
UnfilteredFirstPage(g, limit, is_collection_group, ok) ==
    LET page_size == FirstPageSize(limit)
        response == IF is_collection_group THEN CollectionGroupQuery(page_size)
                    ELSE ListDocuments(page_size, 0)
        op == IF is_collection_group THEN "group_query" ELSE "list"
    IN IF ~ok
       THEN [g |-> g, log |-> <<Req(op, page_size, 0, FALSE, 0)>>, got |-> <<>>,
             threw |-> TRUE]
       ELSE [g |-> [g EXCEPT !.documents = response.documents,
                             !.next_page_token =
                                 IF is_collection_group THEN 0
                                 ELSE response.next_page_token],
             log |-> <<Req(op, page_size, 0, TRUE, Len(response.documents))>>,
             got |-> response.documents, threw |-> FALSE]

\* C5 mutant: the catch block re-fetches but leaves the run_query mode on
RunQueryFailedKeepsMode(g, limit, is_collection_group, fallback_ok) ==
    LET r == UnfilteredFirstPage(g, limit, is_collection_group, fallback_ok)
    IN [r EXCEPT !.log = <<RunQueryReq(g.structured_query, <<>>, 0, FALSE, 0)>> \o r.log]

\* the try/catch around the first RunQuery: on any error the pushdown is
\* dropped and the first page is fetched unfiltered
RunQueryFailed(g, limit, is_collection_group, fallback_ok) ==
    LET g1 == [g EXCEPT !.pushdown_result = <<>>, !.uses_run_query = FALSE,
                        !.structured_query = NoQuery]
        r == UnfilteredFirstPage(g1, limit, is_collection_group, fallback_ok)
    IN [r EXCEPT !.log = <<RunQueryReq(g.structured_query, <<>>, 0, FALSE, 0)>> \o r.log]

\* FirestoreScanInitGlobal up to the first response
InitGlobalFetch(bd, first_ok, fallback_ok) ==
    LET is_collection_group == IsCollectionGroup(bd.collection)
        pushed == IF bd.candidate_pushdown_filters # <<>> /\ bd.index_cache.fetch_succeeded
                  THEN MatchFiltersToIndexes(bd.candidate_pushdown_filters, bd.index_cache,
                                             is_collection_group)
                  ELSE <<>>
        g0 == [NewGlobalState EXCEPT !.pushdown_result = pushed]
        page_size == FirstPageSize(bd.limit)
        sq == StructuredQuery(is_collection_group, pushed, page_size,
                              OrderBy(bd.order_by, pushed))
        g1 == [g0 EXCEPT !.structured_query = sq, !.uses_run_query = TRUE,
                         !.query_page_size = page_size]
        response == RunQuery(sq, 0)
    IN IF pushed # <<>>
       THEN IF first_ok
            THEN [g |-> [g1 EXCEPT !.documents = response.documents,
                                   !.next_page_token = 0,
                                   !.last_page_was_full =
                                       PageWasFull(Len(response.documents), page_size)],
                  log |-> <<RunQueryReq(sq, <<>>, 0, TRUE, Len(response.documents))>>,
                  got |-> response.documents, threw |-> FALSE]
            ELSE RunQueryFailed(g1, bd.limit, is_collection_group, fallback_ok)
       ELSE UnfilteredFirstPage(g0, bd.limit, is_collection_group, first_ok)

FirestoreScanInitGlobal(first_ok, fallback_ok) ==
    /\ phase = "planned"
    /\ LET r == InitGlobalFetch(bind_data, first_ok, fallback_ok)
       IN /\ requests' = requests \o r.log
          /\ fetched' = fetched \o r.got
          /\ IF r.threw
             THEN /\ phase' = "init_error"
                  /\ UNCHANGED global_state
             ELSE /\ phase' = "streaming"
                  /\ global_state' = [r.g EXCEPT !.current_index = 0,
                                                 !.finished = (r.g.documents = <<>>)]
    /\ bind_data' = [bind_data EXCEPT
                        !.is_collection_group = IsCollectionGroup(bind_data.collection)]
    /\ UNCHANGED <<filters, server_indexes, get, service, emitted, writeVars, restVars>>

\* One pull's working state: the global state, the requests issued and pages
\* received during the call, the rows written to the output chunk, the number
\* of fetches attempted, whether a fetch threw, whether the loop hit a break.
Work(g) == [g |-> g, log |-> <<>>, got |-> <<>>, out |-> <<>>, nfetch |-> 0,
            threw |-> FALSE, broke |-> FALSE]

\* cursor continuation: the cached query again, startAt after the last document
NextRunQueryPage(w, fail_at) ==
    LET g == w.g
        last_doc == Last(g.documents)
        cursor_value == ReferenceValue(last_doc)
        paginated_query == g.structured_query
        start_at == StartAt(cursor_value)
        response == RunQuery(paginated_query, start_at.values[1].referenceValue)
        n == Len(response.documents)
        g1 == [g EXCEPT !.last_page_was_full = PageWasFull(n, g.query_page_size)]
    IN IF ~g.last_page_was_full \/ g.documents = <<>>
       THEN [w EXCEPT !.broke = TRUE]
       ELSE IF w.nfetch + 1 = fail_at
       THEN [w EXCEPT !.threw = TRUE, !.nfetch = @ + 1,
                      !.log = @ \o <<RunQueryReq(paginated_query, start_at,
                                                 last_doc, FALSE, 0)>>]
       ELSE [w EXCEPT !.nfetch = @ + 1,
                      !.log = @ \o <<RunQueryReq(paginated_query, start_at,
                                                 last_doc, TRUE, n)>>,
                      !.got = @ \o response.documents,
                      !.broke = (n = 0),
                      !.g = IF n = 0 THEN g1
                            ELSE [g1 EXCEPT !.documents = response.documents,
                                            !.current_index = 0]]

\* C2 mutant: the new page is appended to the old one and read from the start
AcceptPageAppend(g, response) ==
    [g EXCEPT !.documents = @ \o response.documents,
              !.next_page_token = response.next_page_token,
              !.current_index = 0]

\* a non-empty list page replaces the current one
AcceptPage(g, response) ==
    [g EXCEPT !.documents = response.documents,
              !.next_page_token = response.next_page_token,
              !.current_index = 0]

\* page-token continuation: a fresh FirestoreQuery (default page size) with
\* the stored token
NextListPage(w, fail_at) ==
    LET g == w.g
        response == ListDocuments(MAX_PAGE_SIZE, g.next_page_token)
        n == Len(response.documents)
    IN IF g.next_page_token = 0
       THEN [w EXCEPT !.broke = TRUE]
       ELSE IF w.nfetch + 1 = fail_at
       THEN [w EXCEPT !.threw = TRUE, !.nfetch = @ + 1,
                      !.log = @ \o <<Req("list", MAX_PAGE_SIZE, g.next_page_token,
                                         FALSE, 0)>>]
       ELSE [w EXCEPT !.nfetch = @ + 1,
                      !.log = @ \o <<Req("list", MAX_PAGE_SIZE, g.next_page_token,
                                         TRUE, n)>>,
                      !.got = @ \o response.documents,
                      !.broke = (n = 0),
                      !.g = IF n = 0 THEN g ELSE AcceptPage(g, response)]

\* the fetch at the head of the loop body, taken when the page is used up
FetchMore(w, fail_at) ==
    IF w.g.uses_run_query THEN NextRunQueryPage(w, fail_at)
    ELSE NextListPage(w, fail_at)

\* the tail of the loop body: one document becomes one output row
EmitRow(w) ==
    [w EXCEPT !.out = Append(@, w.g.documents[w.g.current_index + 1]),
              !.g = [w.g EXCEPT !.current_index = @ + 1]]

RECURSIVE ScanLoopSwallow(_, _, _)
\* C6 mutant: a fetch that throws is taken for the end of the data
ScanLoopSwallow(w, max_count, fail_at) ==
    IF Len(w.out) >= max_count THEN w
    ELSE IF w.g.current_index >= Len(w.g.documents)
         THEN LET f == FetchMore(w, fail_at)
              IN IF f.threw THEN [f EXCEPT !.threw = FALSE, !.broke = TRUE]
                 ELSE IF f.broke THEN f
                 ELSE ScanLoopSwallow(EmitRow(f), max_count, fail_at)
         ELSE ScanLoopSwallow(EmitRow(w), max_count, fail_at)

RECURSIVE ScanLoop(_, _, _)
\* while (count < max_count) of FirestoreScanFunction; each iteration works
\* on the value the last one left (the one member of the set it is drawn from)
ScanLoop(w0, max_count, fail_at) ==
    CHOOSE result \in
        {IF Len(w.out) >= max_count THEN w
         ELSE IF w.g.current_index >= Len(w.g.documents)
              THEN CHOOSE r \in
                      {IF f.threw \/ f.broke THEN f
                       ELSE ScanLoop(EmitRow(f), max_count, fail_at) :
                          f \in {FetchMore(w, fail_at)}} : TRUE
              ELSE ScanLoop(EmitRow(w), max_count, fail_at) : w \in {w0}} : TRUE

\* the rows the limit leaves for this call
MaxCount(limit, current_index) ==
    IF limit # NoLimit
    THEN Min2(STANDARD_VECTOR_SIZE, limit - current_index)
    ELSE STANDARD_VECTOR_SIZE

\* the limit test at the head of the pull
LimitReached(limit, g) == limit # NoLimit /\ g.current_index >= limit

\* C32 mutant: a pull that wrote no row leaves the scan open
FinishedAfterEmptyPullOpen(w) ==
    IF Len(w.out) = 0 THEN w.g.finished
    ELSE IF w.g.current_index >= Len(w.g.documents)
         THEN IF w.g.uses_run_query THEN w.g.finished
              ELSE IF w.g.next_page_token = 0 THEN TRUE ELSE w.g.finished
         ELSE w.g.finished

\* the finished test after the loop
FinishedAfter(w) ==
    IF Len(w.out) = 0 THEN TRUE
    ELSE IF w.g.current_index >= Len(w.g.documents)
         THEN IF w.g.uses_run_query THEN w.g.finished
              ELSE IF w.g.next_page_token = 0 THEN TRUE ELSE w.g.finished
         ELSE w.g.finished

\* the largest number of fetches one pull can attempt
MaxFetchPerPull == STANDARD_VECTOR_SIZE + 1

FirestoreScanFunction(fail_at) ==
    /\ phase = "streaming"
    /\ IF global_state.finished
       THEN UNCHANGED <<global_state, requests, fetched, emitted, phase>>
       ELSE IF LimitReached(bind_data.limit, global_state)
       THEN /\ global_state' = [global_state EXCEPT !.finished = TRUE]
            /\ UNCHANGED <<requests, fetched, emitted, phase>>
       ELSE \E w \in {ScanLoop(Work(global_state),
                                MaxCount(bind_data.limit, global_state.current_index),
                                fail_at)} :
               /\ requests' = requests \o w.log
               /\ fetched' = fetched \o w.got
               /\ IF w.threw
                  THEN /\ phase' = "scan_error"
                       /\ global_state' = w.g
                       /\ UNCHANGED emitted
                  ELSE /\ phase' = phase
                       /\ global_state' = [w.g EXCEPT !.finished = FinishedAfter(w)]
                       /\ emitted' = emitted \o w.out
    /\ UNCHANGED <<filters, bind_data, server_indexes, get, service, writeVars, restVars>>

----------------------------------------------------------------------------
(* Write planner: firestore_writer.cpp.  Rows and ids are named by their *)
(* position 1..n in the input; remote fixes how the service answers.     *)

BatchOutcomes == {"permission", "error"}
SingleOutcomes == {"ok", "not_found", "permission"}

Max2(a, b) == IF a >= b THEN a ELSE b

\* the answer to the ord-th batch-write request of the operation
BatchOutcome(ord) ==
    IF ord = remote.batch_fail_at THEN remote.batch_fail_kind ELSE "ok"

\* FirestoreClient::BatchWrite: one POST :batchWrite carrying the writes
BatchWrite(writes, ord, input_ended) ==
    [kind |-> "batch", ids |-> writes, outcome |-> BatchOutcome(ord),
     input_ended |-> input_ended]

\* CreateDocument / UpdateDocument / DeleteDocument for the row or id at p
SingleCall(call, p) ==
    [kind |-> call, ids |-> <<p>>, outcome |-> remote.single[p],
     input_ended |-> FALSE]

\* C11 mutant: the new operation is put at the head of the buffer
PushFront(writes, p) == <<p>> \o writes

\* batch_writes.push_back(write_op) / writes.push_back(write_op)
PushBack(writes, p) == Append(writes, p)

\* C7 mutant: the buffer is flushed only once it holds more than BATCH_SIZE
BufferOverfull(writes) == Len(writes) > BATCH_SIZE

\* writes.size() >= BATCH_SIZE
BufferFull(writes) == Len(writes) >= BATCH_SIZE

\* C8 mutant: the permission handler forgets to switch modes
StayInBatchMode(s) == s

\* the first statement of the FirestorePermissionException handlers
SwitchToIndividualOps(s) == [s EXCEPT !.use_individual_ops = TRUE]

\* C9 mutant: an id the remote did not find is counted as affected
CountEveryCall(count, outcome) == count + 1

\* count++ after the individual call; skipped when the call throws
CountAfterCall(count, outcome) == IF outcome = "ok" THEN count + 1 ELSE count

\* the state of one write operation
NewWrite(op, use_auto_ids, n) ==
    [op |-> op, use_auto_ids |-> use_auto_ids, n |-> n, next |-> 1,
     batch_writes |-> <<>>, use_individual_ops |-> FALSE, rows_inserted |-> 0,
     count_emitted |-> FALSE, nbatch |-> 0, peak |-> 0, status |-> "running",
     elements |-> <<>>, pulled_when_done |-> FALSE]

\* the done flag is left unset
MarkDoneForgotten(s) == s

\* global_state.done = true / global_state.count_emitted = true
MarkDone(s) == [s EXCEPT !.count_emitted = TRUE]

\* a pull after the count row: output.SetCardinality(0), nothing else
LatePull ==
    /\ wr' = [wr EXCEPT !.pulled_when_done = TRUE]
    /\ UNCHANGED <<wlog, wout>>

\* a handler's working state: the operation state, the requests it issued
WriteWork(s) == [s |-> s, log |-> <<>>, threw |-> FALSE]

RECURSIVE FallbackCreates(_, _, _)
\* the per-operation loop of FlushInsertBatchWrites: every failure is logged
\* and skipped
FallbackCreates(w, writes, k) ==
    IF k > Len(writes) THEN w
    ELSE LET c == SingleCall("create", writes[k])
         IN FallbackCreates(
                [w EXCEPT !.log = Append(@, c),
                          !.s.rows_inserted = CountAfterCall(@, c.outcome)],
                writes, k + 1)

FlushInsertBatchWrites(w, input_ended) ==
    LET writes == w.s.batch_writes
        b == BatchWrite(writes, w.s.nbatch + 1, input_ended)
        w1 == [w EXCEPT !.log = Append(@, b), !.s.nbatch = @ + 1]
    IN IF writes = <<>> THEN w
       ELSE IF b.outcome = "ok"
       THEN [w1 EXCEPT !.s.rows_inserted = @ + Len(writes), !.s.batch_writes = <<>>]
       ELSE IF b.outcome = "permission"
       THEN LET f == FallbackCreates([w1 EXCEPT !.s = SwitchToIndividualOps(@)],
                                     writes, 1)
            IN [f EXCEPT !.s.batch_writes = <<>>]
       ELSE [w1 EXCEPT !.threw = TRUE]

\* the body of the row loop of FirestoreInsertInOutFunction for row p
InsertRow(w, p) ==
    LET c == SingleCall("create", p)
        buffered == PushBack(w.s.batch_writes, p)
        w1 == [w EXCEPT !.s.batch_writes = buffered,
                        !.s.peak = Max2(@, Len(buffered))]
    IN IF w.s.use_auto_ids \/ w.s.use_individual_ops
       THEN IF c.outcome = "ok"
            THEN [w EXCEPT !.log = Append(@, c), !.s.rows_inserted = @ + 1]
            ELSE [w EXCEPT !.log = Append(@, c), !.threw = TRUE]
       ELSE IF BufferFull(buffered) THEN FlushInsertBatchWrites(w1, FALSE)
            ELSE w1

RECURSIVE InsertRows(_, _, _)
InsertRows(w, p, last) ==
    IF w.threw \/ p > last THEN w
    ELSE InsertRows(InsertRow(w, p), p + 1, last)

\* one input chunk of k rows
FirestoreInsertInOutFunction(k) ==
    /\ wr.op = "insert" /\ wr.status = "running"
    /\ wr.next + k - 1 <= wr.n
    /\ LET w == InsertRows(WriteWork(wr), wr.next, wr.next + k - 1)
       IN /\ wlog' = wlog \o w.log
          /\ wr' = [w.s EXCEPT !.next = IF w.threw THEN @ ELSE wr.next + k,
                               !.status = IF w.threw THEN "error" ELSE @]
    /\ UNCHANGED <<wout, remote, pushVars, scanVars, restVars>>

\* the end of the input
FirestoreInsertFinal ==
    /\ wr.op = "insert" /\ wr.status = "running"
    /\ wr.next > wr.n
    /\ IF wr.count_emitted
       THEN LatePull
       ELSE LET w == IF ~wr.use_auto_ids /\ wr.batch_writes # <<>>
                     THEN FlushInsertBatchWrites(WriteWork(wr), TRUE)
                     ELSE WriteWork(wr)
            IN /\ wlog' = wlog \o w.log
               /\ IF w.threw
                  THEN /\ wr' = [w.s EXCEPT !.status = "error"]
                       /\ UNCHANGED wout
                  ELSE /\ wr' = MarkDone(w.s)
                       /\ wout' = Append(wout, w.s.rows_inserted)
    /\ UNCHANGED <<remote, pushVars, scanVars, restVars>>

\* an individual update or delete inside FirestoreUpdateBatchFunction /
\* FirestoreDeleteBatchFunction: not-found is logged and skipped, anything
\* else leaves through the outer catch
IndividualOp(w, call, p) ==
    LET c == SingleCall(call, p)
    IN [w EXCEPT !.log = Append(@, c),
                 !.s.rows_inserted = CountAfterCall(@, c.outcome),
                 !.threw = (c.outcome \notin {"ok", "not_found"})]

RECURSIVE RetryIndividually(_, _, _, _)
\* for (j = i - (writes.size() - 1); j <= i; j++) in the permission handler
RetryIndividually(w, call, j, i) ==
    IF w.threw \/ j > i THEN w
    ELSE RetryIndividually(IndividualOp(w, call, j), call, j + 1, i)

\* C33 mutant: the permission handler re-issues the ids from the first one
RetryFromFirstId(i, writes) == 1

\* j = i - (writes.size() - 1): the position of the first id of the batch
RetryFrom(i, writes) == i - (Len(writes) - 1)

\* the body of the id loop for the id at position i
BatchStep(w, call, i) ==
    LET writes == PushBack(w.s.batch_writes, i)
        w1 == [w EXCEPT !.s.batch_writes = writes, !.s.peak = Max2(@, Len(writes))]
        b == BatchWrite(writes, w.s.nbatch + 1, i = w.s.n)
        w2 == [w1 EXCEPT !.log = Append(@, b), !.s.nbatch = @ + 1]
    IN IF w.s.use_individual_ops THEN IndividualOp(w, call, i)
       ELSE IF BufferFull(writes) \/ i = w.s.n
       THEN IF b.outcome = "ok"
            THEN [w2 EXCEPT !.s.rows_inserted = @ + Len(writes),
                            !.s.batch_writes = <<>>]
            ELSE IF b.outcome = "permission"
            THEN LET r == RetryIndividually([w2 EXCEPT !.s = SwitchToIndividualOps(@)],
                                            call, RetryFrom(i, writes), i)
                 IN IF r.threw THEN r ELSE [r EXCEPT !.s.batch_writes = <<>>]
            ELSE [w2 EXCEPT !.threw = TRUE]
       ELSE w1

RECURSIVE BatchLoop(_, _, _)
\* for (i = 0; i < document_ids.size(); i++)
BatchLoop(w, call, i) ==
    IF w.threw \/ i > w.s.n THEN w
    ELSE BatchLoop(BatchStep(w, call, i), call, i + 1)

\* a whole update_batch or delete_batch call: the id loop, then the count row
BatchFunction(call) ==
    IF wr.count_emitted
    THEN LatePull
    ELSE LET w == BatchLoop(WriteWork(wr), call, 1)
         IN /\ wlog' = wlog \o w.log
            /\ IF w.threw
               THEN /\ wr' = [w.s EXCEPT !.status = "error"]
                    /\ UNCHANGED wout
               ELSE /\ wr' = MarkDone([w.s EXCEPT !.next = w.s.n + 1])
                    /\ wout' = Append(wout, w.s.rows_inserted)

FirestoreUpdateBatchFunction ==
    /\ wr.op = "update_batch" /\ wr.status = "running"
    /\ BatchFunction("update")
    /\ UNCHANGED <<remote, pushVars, scanVars, restVars>>

FirestoreDeleteBatchFunction ==
    /\ wr.op = "delete_batch" /\ wr.status = "running"
    /\ BatchFunction("delete")
    /\ UNCHANGED <<remote, pushVars, scanVars, restVars>>

\* FirestoreUpdateFunction / FirestoreDeleteFunction: one call for one
\* document; not-found counts 0, any other error leaves as InvalidInput
SingleFunction(call) ==
    IF wr.count_emitted
    THEN LatePull
    ELSE LET c == SingleCall(call, 1)
         IN /\ wlog' = Append(wlog, c)
            /\ IF c.outcome \notin {"ok", "not_found"}
               THEN /\ wr' = [wr EXCEPT !.status = "error"]
                    /\ UNCHANGED wout
               ELSE /\ wr' = MarkDone([wr EXCEPT !.next = 2,
                                                 !.rows_inserted = IF c.outcome = "ok" THEN 1 ELSE 0])
                    /\ wout' = Append(wout, IF c.outcome = "ok" THEN 1 ELSE 0)

FirestoreUpdateFunction ==
    /\ wr.op = "update" /\ wr.status = "running"
    /\ SingleFunction("update")
    /\ UNCHANGED <<remote, pushVars, scanVars, restVars>>

FirestoreDeleteFunction ==
    /\ wr.op = "delete" /\ wr.status = "running"
    /\ SingleFunction("delete")
    /\ UNCHANGED <<remote, pushVars, scanVars, restVars>>

----------------------------------------------------------------------------
(* Array transforms: FirestoreClient::ArrayTransform and                   *)
(* FirestoreArrayTransformFunction                                         *)

MaxElems == 2        \* longest array and longest element list explored

\* the element values of the explored arrays
Elems == {"a", "b"}

Contains(arr, e) == \E i \in 1..Len(arr) : arr[i] = e

RECURSIVE AppendMissingElements(_, _)
\* the service's appendMissingElements: each given element not yet in the
\* array is added at its end, in the order given
AppendMissingElements(arr, elements) ==
    IF elements = <<>> THEN arr
    ELSE AppendMissingElements(IF Contains(arr, Head(elements)) THEN arr
                               ELSE Append(arr, Head(elements)),
                               Tail(elements))

\* the service's removeAllFromArray
RemoveAllFromArray(arr, elements) == SelectSeq(arr, LAMBDA e : ~Contains(elements, e))

\* the array a document's field holds for the service and for the append:
\* a missing field and a field of another kind count as the empty array
CurrentArray(doc) == IF doc.kind = "array" THEN doc.values ELSE <<>>

\* the append written with the service's set-union transform
ExtendedArrayDeduplicated(current_array, elements) == AppendMissingElements(current_array, elements)

\* "Append new elements (allowing duplicates)"
ExtendedArray(current_array, elements) == current_array \o elements

\* one request about the document: the service answers not-found for a
\* missing document, else the k-th answer of the explored remote
DocumentCall(call, k, body) ==
    [kind |-> call, ids |-> IF call = "get" THEN <<>> ELSE <<1>>,
     outcome |-> IF ~remote.doc.exists THEN "not_found" ELSE remote.single[k],
     input_ended |-> FALSE, body |-> body]

\* FirestoreClient::ArrayTransform: the requests it issues, the outcome that
\* leaves it, and the document it leaves behind
ArrayTransform(elements, transform_type) ==
    IF transform_type = "array_append"
    THEN LET read == DocumentCall("get", 1, <<>>)
             current_array == CurrentArray(remote.doc)
             update == DocumentCall("update", 2, ExtendedArray(current_array, elements))
         IN IF read.outcome # "ok"
            THEN [log |-> <<read>>, outcome |-> read.outcome, doc |-> remote.doc]
            ELSE [log |-> <<read, update>>, outcome |-> update.outcome,
                  doc |-> IF update.outcome = "ok"
                          THEN [remote.doc EXCEPT !.kind = "array", !.values = update.body]
                          ELSE remote.doc]
    ELSE LET commit == DocumentCall("transform", 1, elements)
             current_array == CurrentArray(remote.doc)
         IN [log |-> <<commit>>, outcome |-> commit.outcome,
             doc |-> IF commit.outcome # "ok" THEN remote.doc
                     ELSE [remote.doc EXCEPT
                              !.kind = "array",
                              !.values = IF transform_type = "array_union"
                                         THEN AppendMissingElements(current_array, elements)
                                         ELSE RemoveAllFromArray(current_array, elements)]]

ArrayOps == {"array_union", "array_remove", "array_append"}

\* firestore_array_union / _remove / _append: one transform, then the count
FirestoreArrayTransformFunction ==
    /\ wr.op \in ArrayOps /\ wr.status = "running"
    /\ IF wr.count_emitted
       THEN LatePull /\ UNCHANGED remote
       ELSE LET t == ArrayTransform(wr.elements, wr.op)
            IN /\ wlog' = wlog \o t.log
               /\ remote' = [remote EXCEPT !.doc = t.doc]
               /\ IF t.outcome \notin {"ok", "not_found"}
                  THEN /\ wr' = [wr EXCEPT !.status = "error"]
                       /\ UNCHANGED wout
                  ELSE /\ wr' = MarkDone([wr EXCEPT !.next = 2,
                                                    !.rows_inserted = IF t.outcome = "ok" THEN 1 ELSE 0])
                       /\ wout' = Append(wout, IF t.outcome = "ok" THEN 1 ELSE 0)
    /\ UNCHANGED <<pushVars, scanVars, restVars>>

----------------------------------------------------------------------------
(* Specifications of the scan *)

\* the token-refresh machine at rest
AuthIdle ==
    /\ credentials = [type |-> "SERVICE_ACCOUNT", access_token |-> 0, token_expiry |-> 0]
    /\ callers = <<>>
    /\ authlog = [exchanges |-> 0, invalidations |-> 0, races |-> 0, calls |-> 0]

\* the schema cache at rest
CacheIdle ==
    /\ schema_cache = <<>>
    /\ ttl = 0
    /\ firestore = <<>>
    /\ bindlog = [seq |-> 0, op |-> "none", project |-> <<>>, collection |-> <<>>,
                  outcome |-> "none", fetches |-> <<>>]

\* the credential resolver at rest
CredIdle ==
    /\ credentials_cache = <<>>
    /\ secret_store = [secrets |-> {}, env |-> FALSE, connected |-> "none"]
    /\ resolved = [seq |-> 0, op |-> "none"]

\* no document behind the written path
NoDocument == [exists |-> FALSE, kind |-> "missing", values |-> <<>>]

\* no thread inside a function, the mutex free, the document untouched, no
\* session connected
LockIdle ==
    /\ threads = <<>>
    /\ credentials_cache_mutex = 0
    /\ stored_document = NoDocument
    /\ connected_databases = <<>>

\* no call of a single function under way
CallIdle ==
    /\ input = [fn |-> "none"]
    /\ output = [pc |-> "none"]

\* the write machine at rest
WriteIdle ==
    /\ wr = [op |-> "none"]
    /\ remote = [batch_fail_at |-> 0, batch_fail_kind |-> "error", single |-> <<>>,
                 doc |-> NoDocument]
    /\ wlog = <<>>
    /\ wout = <<>>

ScanStartOrdered(collection, limit, order_by) ==
    /\ bind_data = [collection |-> collection, limit |-> limit,
                    order_by |-> order_by,
                    is_collection_group |-> FALSE,
                    index_cache |-> IndexCache(<<>>, <<>>, TRUE, FALSE),
                    candidate_pushdown_filters |-> <<>>]
    /\ phase = "start"
    /\ global_state = NewGlobalState
    /\ requests = <<>>
    /\ fetched = <<>>
    /\ emitted = <<>>

ScanStart(collection, limit) == ScanStartOrdered(collection, limit, NoOrderBy)

\* the predicates the host hands to the hook in the explored queries
ExprUniverse ==
    {Cmp("COMPARE_EQUAL", 1, FALSE), Cmp("COMPARE_EQUAL", 2, FALSE),
     Cmp("COMPARE_NOTEQUAL", 1, FALSE), Cmp("COMPARE_LESSTHAN", 2, FALSE),
     Cmp("COMPARE_EQUAL", 0, FALSE),
     NullTest("OPERATOR_IS_NULL", 2), NullTest("OPERATOR_IS_NOT_NULL", 3),
     Conj("CONJUNCTION_OR", <<Cmp("COMPARE_EQUAL", 1, FALSE), Cmp("COMPARE_EQUAL", 1, TRUE)>>),
     Conj("CONJUNCTION_AND", <<Cmp("COMPARE_EQUAL", 2, FALSE),
                               Cmp("COMPARE_GREATERTHAN", 3, TRUE)>>)}

\* the composite indexes the admin API lists in the explored catalogs
IndexUniverse ==
    {Index(<<"a", "b", "__name__">>, "COLLECTION", "READY"),
     Index(<<"a", "b">>, "COLLECTION_GROUP", "READY"),
     Index(<<"a", "b", "c">>, "COLLECTION", "CREATING")}

\* planner inputs: any filter vector and catalog, over a one-document collection
InitPushdown ==
    /\ LockIdle
    /\ filters \in SeqsUpTo(ExprUniverse, MaxExprs)
    /\ get = [column_ids |-> <<0, 1, 2, 3>>, file_filters |-> <<>>]
    /\ \E listed \in SeqsUpTo(IndexUniverse, MaxIndexes), dflt \in BOOLEAN :
          server_indexes = [listed |-> listed, default_enabled |-> dflt]
    /\ \E collection \in Collections : ScanStart(collection, NoLimit)
    /\ service = [ndocs |-> 1, matching |-> {1}]
    /\ WriteIdle
    /\ AuthIdle /\ CacheIdle /\ CredIdle /\ CallIdle /\ now = 0

\* executor inputs: any collection size, matching set and limit, with no
\* predicate or one indexed equality predicate
InitScan ==
    /\ LockIdle
    /\ filters \in {<<>>, <<Cmp("COMPARE_EQUAL", 1, FALSE)>>}
    /\ get = [column_ids |-> <<0, 1, 2, 3>>, file_filters |-> <<>>]
    /\ server_indexes = [listed |-> <<>>, default_enabled |-> TRUE]
    /\ \E collection \in Collections, limit \in {NoLimit} \cup 0..MaxLimit :
          ScanStart(collection, limit)
    /\ \E n \in 0..MaxDocs :
          \E m \in (IF filters = <<>> THEN {1..n} ELSE SUBSET (1..n)) :
             service = [ndocs |-> n, matching |-> m]
    /\ WriteIdle
    /\ AuthIdle /\ CacheIdle /\ CredIdle /\ CallIdle /\ now = 0

NextScan ==
    \/ \E fetch_ok \in BOOLEAN, check_ok \in BOOLEAN : FirestoreScanBind(fetch_ok, check_ok)
    \/ FirestoreComplexFilterPushdown
    \/ \E first_ok \in BOOLEAN, fallback_ok \in BOOLEAN :
          FirestoreScanInitGlobal(first_ok, fallback_ok)
    \/ \E fail_at \in 0..MaxFetchPerPull : FirestoreScanFunction(fail_at)

\* planning ends with the first fetch
NextPushdown ==
    \/ \E fetch_ok \in BOOLEAN, check_ok \in BOOLEAN : FirestoreScanBind(fetch_ok, check_ok)
    \/ FirestoreComplexFilterPushdown
    \/ \E first_ok \in BOOLEAN, fallback_ok \in BOOLEAN :
          FirestoreScanInitGlobal(first_ok, fallback_ok)

SpecPushdown == InitPushdown /\ [][NextPushdown]_vars

SpecScan == InitScan /\ [][NextScan]_vars

----------------------------------------------------------------------------
(* Specification of the write planner *)

\* the scan machine at rest
ScanIdle ==
    /\ filters = <<>>
    /\ get = [column_ids |-> <<0, 1, 2, 3>>, file_filters |-> <<>>]
    /\ server_indexes = [listed |-> <<>>, default_enabled |-> TRUE]
    /\ bind_data = [collection |-> <<"u">>, limit |-> NoLimit,
                    order_by |-> NoOrderBy,
                    is_collection_group |-> FALSE,
                    index_cache |-> IndexCache(<<>>, <<>>, TRUE, FALSE),
                    candidate_pushdown_filters |-> <<>>]
    /\ phase = "idle"
    /\ global_state = NewGlobalState
    /\ service = [ndocs |-> 0, matching |-> {}]
    /\ requests = <<>>
    /\ fetched = <<>>
    /\ emitted = <<>>

\* the most batch requests an operation over MaxIds rows can need
MaxBatches == (MaxIds \div BATCH_SIZE) + 1

\* the documents an array transform meets: absent, or holding the field as
\* an array, as a string, or not at all
Documents ==
    {NoDocument}
    \cup {[exists |-> TRUE, kind |-> "array", values |-> v] : v \in SeqsUpTo(Elems, MaxElems)}
    \cup {[exists |-> TRUE, kind |-> k, values |-> <<>>] : k \in {"string", "missing"}}

\* any operation over up to MaxIds rows or ids, against any remote behaviour
InitWrite ==
    /\ LockIdle
    /\ ScanIdle
    /\ AuthIdle /\ CacheIdle /\ CredIdle /\ CallIdle /\ now = 0
    /\ \/ \E op \in {"insert", "update_batch", "delete_batch"}, n \in 0..MaxIds,
             use_auto_ids \in BOOLEAN :
             /\ use_auto_ids => op = "insert"
             /\ wr = NewWrite(op, use_auto_ids, n)
             /\ \E at \in 0..MaxBatches, kind \in BatchOutcomes,
                   single \in [1..n -> SingleOutcomes] :
                   /\ at = 0 => kind = "error"
                   /\ remote = [batch_fail_at |-> at, batch_fail_kind |-> kind,
                                single |-> single, doc |-> NoDocument]
       \* update or delete of one document
       \/ \E op \in {"update", "delete"}, single \in [1..1 -> SingleOutcomes] :
             /\ wr = NewWrite(op, FALSE, 1)
             /\ remote = [batch_fail_at |-> 0, batch_fail_kind |-> "error",
                          single |-> single, doc |-> NoDocument]
       \* an array transform of one field of one document, present or not
       \/ \E op \in ArrayOps, elements \in SeqsUpTo(Elems, MaxElems),
             doc \in Documents, single \in [1..2 -> {"ok", "permission"}] :
             /\ wr = [NewWrite(op, FALSE, 1) EXCEPT !.elements = elements]
             /\ remote = [batch_fail_at |-> 0, batch_fail_kind |-> "error",
                          single |-> single, doc |-> doc]
    /\ wlog = <<>>
    /\ wout = <<>>

NextWrite ==
    \/ \E k \in 1..STANDARD_VECTOR_SIZE : FirestoreInsertInOutFunction(k)
    \/ FirestoreInsertFinal
    \/ FirestoreUpdateBatchFunction
    \/ FirestoreDeleteBatchFunction
    \/ FirestoreUpdateFunction
    \/ FirestoreDeleteFunction
    \/ FirestoreArrayTransformFunction

SpecWrite == InitWrite /\ [][NextWrite]_vars

----------------------------------------------------------------------------
(* Claims about the pushdown planner *)

\* C1: no step of a scan, the pushdown hook included, changes the host's
\* filter vector, whatever the hook selects for the remote.
C1_HostFiltersUnchanged == [][filters' = filters]_vars

\* C1 witness: the hook has run over a two-predicate vector and pushed a filter
C1_Witness ==
    /\ phase = "planned"
    /\ Len(filters) = 2
    /\ get.file_filters # <<>>
    /\ bind_data.candidate_pushdown_filters # <<>>

\* the classes of spec section 3: =, IN and IS_NULL are equality-class
IsEqualityClass(f) ==
    IF f.is_unary THEN f.unary_op = "IS_NULL"
    ELSE f.firestore_op \in {"EQUAL", "IN"}

\* C4: the pushed set is backed by indexes: with no inequality-class filter
\* pushed, every pushed field has a single-field index; with equality-class
\* and inequality-class filters pushed together, a ready composite index of
\* the required scope covers the equality fields and the inequality field.
C4_PushedFiltersIndexed ==
    LET pushed == get.file_filters
        scope == RequiredScope(IsCollectionGroup(bind_data.collection))
        eqs == {i \in 1..Len(pushed) : IsEqualityClass(pushed[i])}
        ineqs == {i \in 1..Len(pushed) : ~IsEqualityClass(pushed[i])}
    IN /\ ineqs = {} =>
             \A i \in eqs : HasSingleFieldIndex(pushed[i].field_path,
                                                bind_data.index_cache, scope)
       /\ (eqs # {} /\ ineqs # {}) =>
             \A i \in ineqs :
                FindMatchingCompositeIndex({pushed[k].field_path : k \in eqs},
                                           pushed[i].field_path,
                                           bind_data.index_cache, scope)

----------------------------------------------------------------------------
(* Claims about the scan executor *)

IsPrefix(s, t) == Len(s) <= Len(t) /\ \A i \in 1..Len(s) : s[i] = t[i]

\* a continuation request carries a cursor: a page token or a startAt document
IsContinuation(r) == r.cursor # 0

\* C2: without a limit the rows emitted over all pulls are the documents of
\* the pages the service returned, in fetch order: always a prefix of them
\* and, when the scan has finished, all of them, each once.
C2_RowsFollowPages ==
    bind_data.limit = NoLimit =>
        /\ IsPrefix(emitted, fetched)
        /\ (phase = "streaming" /\ global_state.finished => emitted = fetched)

\* C2 witness: a finished unlimited scan that took several pages and more
\* than one output chunk
C2_Witness ==
    /\ bind_data.limit = NoLimit
    /\ phase = "streaming" /\ global_state.finished
    /\ Len(requests) >= 3
    /\ Len(emitted) > STANDARD_VECTOR_SIZE
    /\ emitted = fetched

\* C3: with limit L the scan never emits more than L rows.
C3_LimitBoundsRows ==
    bind_data.limit # NoLimit => Len(emitted) <= bind_data.limit

C6_ContinuationFaultIsFatal ==
    /\ [](\A i \in 1..Len(requests) :
            (IsContinuation(requests[i]) /\ ~requests[i].ok)
            => /\ i = Len(requests)
               /\ phase = "scan_error"
               /\ global_state.uses_run_query = (requests[i].op = "run_query"))
    /\ [][(/\ Len(requests') > Len(requests)
           /\ IsContinuation(Last(requests'))
           /\ ~Last(requests').ok)
          => /\ phase' = "scan_error"
             /\ emitted' = emitted
             /\ global_state'.uses_run_query = global_state.uses_run_query]_vars

\* C6 witness: a continuation fetch has raised after rows were emitted
C6_Witness ==
    /\ phase = "scan_error"
    /\ Len(requests) >= 2
    /\ IsContinuation(Last(requests)) /\ ~Last(requests).ok
    /\ Len(emitted) > 0

----------------------------------------------------------------------------
(* Claims about the write planner *)

IsBatch(r) == r.kind = "batch"

\* the request at r is a batch write the remote rejected for permission
Denied(r) == IsBatch(wlog[r]) /\ wlog[r].outcome = "permission"

\* the remote answered an individual call for position p with outcome o
Reported(p, o) ==
    \E j \in 1..Len(wlog) :
       ~IsBatch(wlog[j]) /\ wlog[j].ids = <<p>> /\ wlog[j].outcome = o

\* C7: every batch-write request carries between 1 and BATCH_SIZE
\* operations, and carries fewer than BATCH_SIZE only when the input has
\* ended; the pending buffer never exceeded BATCH_SIZE, is below it whenever
\* the operation waits for more input, and is empty once the count is out.
C7_BatchesWithinBatchSize ==
    /\ \A j \in 1..Len(wlog) :
          IsBatch(wlog[j]) =>
             /\ Len(wlog[j].ids) >= 1
             /\ Len(wlog[j].ids) <= BATCH_SIZE
             /\ (Len(wlog[j].ids) = BATCH_SIZE \/ wlog[j].input_ended)
    /\ wr.peak <= BATCH_SIZE
    /\ Len(wr.batch_writes) <= BATCH_SIZE
    /\ wr.status = "running" => Len(wr.batch_writes) < BATCH_SIZE
    /\ wr.count_emitted => wr.batch_writes = <<>>

\* C7 witness: a finished operation that sent a full batch and then a short
\* one at the end of its input
C7_Witness ==
    /\ wr.count_emitted
    /\ wr.peak = BATCH_SIZE
    /\ \E i \in 1..Len(wlog) : \E j \in 1..Len(wlog) :
          /\ i < j
          /\ IsBatch(wlog[i]) /\ Len(wlog[i].ids) = BATCH_SIZE
          /\ IsBatch(wlog[j]) /\ Len(wlog[j].ids) < BATCH_SIZE /\ wlog[j].input_ended

\* C8: after a batch-write request is rejected for permission every later
\* request of the operation is an individual call: first for the positions
\* of the rejected batch, then for the following positions in order, each
\* once, and up to the last position when the operation completes.
C8_IndividualAfterDenial ==
    \A r \in 1..Len(wlog) :
       Denied(r) =>
          /\ \A j \in (r + 1)..Len(wlog) :
                /\ ~IsBatch(wlog[j])
                /\ wlog[j].ids = <<wlog[r].ids[1] + (j - r - 1)>>
          /\ wr.count_emitted => Len(wlog) - r = wr.n - wlog[r].ids[1] + 1

\* C8 witness: a completed operation whose second batch was rejected, with
\* rows left beyond the rejected batch
C8_Witness ==
    /\ wr.count_emitted
    /\ \E r \in 2..Len(wlog) : Denied(r) /\ Len(wlog) > r + BATCH_SIZE

\* C9: the count row of update_batch and delete_batch is at most n and is the
\* number of positions for which the remote reported neither not-found nor,
\* after the downgrade, a permission error.
C9_CountIsAffectedIds ==
    (wr.op \in {"update_batch", "delete_batch"} /\ wout # <<>>) =>
       /\ Len(wout) = 1
       /\ wout[1] <= wr.n
       /\ wout[1] = Cardinality({p \in 1..wr.n :
                                    /\ ~Reported(p, "not_found")
                                    /\ ~Reported(p, "permission")})

\* C9 witness: a count below n after a downgrade met a missing document
C9_Witness ==
    /\ wr.op \in {"update_batch", "delete_batch"}
    /\ wout # <<>> /\ wout[1] > 0 /\ wout[1] < wr.n
    /\ \E r \in 1..Len(wlog) : Denied(r)
    /\ \E p \in 1..wr.n : Reported(p, "not_found")

\* C10: once downgraded, an individual call answered not-found never ends
\* the operation in error.
C10_NotFoundNeverFatal ==
    \A j \in 1..Len(wlog) :
       (/\ ~IsBatch(wlog[j])
        /\ wlog[j].outcome = "not_found"
        /\ \E r \in 1..(j - 1) : Denied(r))
       => ~(wr.status = "error" /\ j = Len(wlog))

RECURSIVE AppliedFrom(_)
\* the positions of the operations the remote was asked to apply, in request
\* order, the batches it rejected left out
AppliedFrom(j) ==
    IF j > Len(wlog) THEN <<>>
    ELSE (IF IsBatch(wlog[j]) /\ wlog[j].outcome # "ok" THEN <<>> ELSE wlog[j].ids)
             \o AppliedFrom(j + 1)

\* C11: operations reach the remote in input order: the positions inside
\* every batch ascend one by one, and the operations of the accepted batches
\* and of the individual calls, taken in request order, are positions
\* 1, 2, 3, ... of the input.
C11_WritesInInputOrder ==
    /\ \A j \in 1..Len(wlog) : \A k \in 1..Len(wlog[j].ids) :
          wlog[j].ids[k] = wlog[j].ids[1] + (k - 1)
    /\ LET applied == AppliedFrom(1)
       IN \A k \in 1..Len(applied) : applied[k] = k

\* C11 witness: a completed operation with an accepted batch, then a
\* rejected one, then individual calls beyond the rejected batch
C11_Witness ==
    /\ wr.count_emitted
    /\ Len(wlog) >= 2 + BATCH_SIZE + 1
    /\ IsBatch(wlog[1]) /\ wlog[1].outcome = "ok" /\ Len(wlog[1].ids) = BATCH_SIZE
    /\ Denied(2)
    /\ Len(AppliedFrom(1)) = wr.n

----------------------------------------------------------------------------
(* Further claims about the pushdown planner *)

\* the members of a sequence
Range(q) == {q[i] : i \in 1..Len(q)}

\* the fields of the inequality-class filters (spec section 3) of a list
InequalityFields(q) == {q[i].field_path : i \in {k \in 1..Len(q) : ~IsEqualityClass(q[k])}}

\* the fields of the equality-class filters of a list
EqualityFields(q) == {q[i].field_path : i \in {k \in 1..Len(q) : IsEqualityClass(q[k])}}

\* C14: the pushed set holds inequality-class filters on at most one field,
\* and when the candidates' inequality-class filters span several fields
\* that field is the lexicographically first of them.
C14_OneInequalityField ==
    LET pushed == get.file_filters
        candidates == bind_data.candidate_pushdown_filters
    IN /\ Cardinality(InequalityFields(pushed)) <= 1
       /\ Cardinality(InequalityFields(candidates)) > 1 =>
             InequalityFields(pushed) \subseteq {FirstField(InequalityFields(candidates))}

\* C15: with equality-class and inequality-class candidates together, a
\* ready composite index over the equality fields and the primary inequality
\* field f gets every equality filter and every inequality filter on f
\* pushed and nothing else; without one, exactly the equality filters whose
\* field has a single-field index are pushed.
C15_CompositeOrEqualityOnly ==
    LET pushed == get.file_filters
        candidates == bind_data.candidate_pushdown_filters
        cache == bind_data.index_cache
        scope == RequiredScope(IsCollectionGroup(bind_data.collection))
        E == {c \in Range(candidates) : IsEqualityClass(c)}
        R == {c \in Range(candidates) : ~IsEqualityClass(c)}
        f == FirstField(InequalityFields(candidates))
    IN (phase = "planned" /\ E # {} /\ R # {}) =>
          IF FindMatchingCompositeIndex(EqualityFields(candidates), f, cache, scope)
          THEN Range(pushed) = E \cup {c \in R : c.field_path = f}
          ELSE Range(pushed) =
                  {c \in E : HasSingleFieldIndex(c.field_path, cache, scope)}

----------------------------------------------------------------------------
(* Token refresh and requests: firestore_auth.cpp, firestore_client.cpp    *)
(*                                                                         *)
(* Threads share one FirestoreCredentials record (the credential cache     *)
(* hands out the same shared_ptr).  RefreshTokenIfNeeded takes no lock, so *)
(* a thread's steps are the stretches of MakeRequest between its accesses  *)
(* to the shared record: the validity check, the token exchange, the two   *)
(* assignments, and the send that reads the token for its header.          *)

MaxCallers == 2      \* threads sharing the credential
MaxCalls == 3        \* MakeRequest calls explored in one behaviour
MaxTime == 3         \* clock ticks explored

(* Token times of the source, scaled: the lifetime exceeds the buffer *)
TOKEN_LIFETIME == 2                  \* 3600 s in RefreshTokenIfNeeded
TOKEN_REFRESH_BUFFER_SECONDS == 1    \* 300 s in firestore_auth.cpp

Callers == 1..MaxCallers

\* what the token-refresh machine leaves alone
AuthFrame == UNCHANGED <<pushVars, scanVars, writeVars, schema_cache, ttl, firestore, bindlog, credVars,
                        callVars, lockVars>>

IsTokenValid(creds, at) ==
    IF creds.type = "API_KEY" THEN TRUE
    ELSE IF creds.access_token = 0 THEN FALSE
    ELSE at < creds.token_expiry - TOKEN_REFRESH_BUFFER_SECONDS

\* the callers that are inside the unsynchronised assignments of the record
Writing(c) == {d \in Callers \ {c} : callers[d].pc \in {"write_token", "write_expiry"}}

NewCaller == [pc |-> "idle", token |-> 0, sent |-> 0, refreshed |-> 0, result |-> "none"]

\* MakeRequest up to the validity check of RefreshTokenIfNeeded.  A check
\* that overlaps another thread's assignment is a data race: it may see
\* either answer.
RefreshTokenIfNeeded(c) ==
    /\ callers[c].pc = "idle"
    /\ authlog.calls < MaxCalls
    /\ LET racing == Writing(c) # {}
       IN \E valid \in (IF racing THEN BOOLEAN ELSE {IsTokenValid(credentials, now)}) :
             /\ callers' = [callers EXCEPT ![c] =
                               [NewCaller EXCEPT !.pc = IF credentials.type # "SERVICE_ACCOUNT" \/ valid
                                                        THEN "send" ELSE "exchange"]]
             /\ authlog' = [authlog EXCEPT !.calls = @ + 1,
                                           !.races = IF racing THEN @ + 1 ELSE @]
    /\ UNCHANGED <<credentials, now>>
    /\ AuthFrame

\* CreateJWT and ExchangeJWTForToken: the token endpoint issues a new token
\* or the exchange throws
ExchangeJWTForToken(c, ok) ==
    /\ callers[c].pc = "exchange"
    /\ IF ok
       THEN /\ callers' = [callers EXCEPT ![c].pc = "write_token",
                                          ![c].token = authlog.exchanges + 1,
                                          ![c].refreshed = @ + 1]
            /\ authlog' = [authlog EXCEPT !.exchanges = @ + 1]
       ELSE /\ callers' = [callers EXCEPT ![c].pc = "done",
                                          ![c].result = "AUTH_TOKEN_EXCHANGE_FAILED"]
            /\ UNCHANGED authlog
    /\ UNCHANGED <<credentials, now>>
    /\ AuthFrame

\* creds.access_token = ...
WriteToken(c) ==
    /\ callers[c].pc = "write_token"
    /\ credentials' = [credentials EXCEPT !.access_token = callers[c].token]
    /\ callers' = [callers EXCEPT ![c].pc = "write_expiry"]
    /\ UNCHANGED <<authlog, now>>
    /\ AuthFrame

\* creds.token_expiry = now + 1h
WriteExpiry(c) ==
    /\ callers[c].pc = "write_expiry"
    /\ credentials' = [credentials EXCEPT !.token_expiry = now + TOKEN_LIFETIME]
    /\ callers' = [callers EXCEPT ![c].pc = "send"]
    /\ UNCHANGED <<authlog, now>>
    /\ AuthFrame

\* HandleError: the error a status raises, "ok" for 2xx
HandleError(status_code) ==
    IF status_code >= 200 /\ status_code < 300 THEN "ok"
    ELSE IF status_code = 401 THEN "AUTH_TOKEN_EXPIRED"
    ELSE IF status_code = 403 THEN "PERMISSION_DENIED"
    ELSE IF status_code = 404 THEN "NOT_FOUND_DOCUMENT"
    ELSE IF status_code = 429 THEN "REQUEST_RATE_LIMITED"
    ELSE IF status_code >= 500 THEN "REQUEST_SERVER_ERROR"
    ELSE "INTERNAL_UNEXPECTED"

\* the statuses the service answers in the explored behaviours
Statuses == {200, 401, 403, 500}

\* the rest of MakeRequest: the header reads the token, the request is sent
\* once and the status is handed to HandleError
MakeRequest(c, status_code) ==
    /\ callers[c].pc = "send"
    /\ callers' = [callers EXCEPT ![c].pc = "done", ![c].sent = @ + 1,
                                  ![c].result = HandleError(status_code)]
    /\ authlog' = [authlog EXCEPT !.races = IF Writing(c) # {} THEN @ + 1 ELSE @]
    /\ UNCHANGED <<credentials, now>>
    /\ AuthFrame

\* the caller takes the result and may call again
Return(c) ==
    /\ callers[c].pc = "done"
    /\ callers' = [callers EXCEPT ![c] = NewCaller]
    /\ UNCHANGED <<credentials, authlog, now>>
    /\ AuthFrame

\* time passes; a valid token may cross its refresh buffer
Tick ==
    /\ now < MaxTime
    /\ now' = now + 1
    /\ authlog' = [authlog EXCEPT !.invalidations =
                      IF IsTokenValid(credentials, now) /\ ~IsTokenValid(credentials, now + 1)
                      THEN @ + 1 ELSE @]
    /\ UNCHANGED <<credentials, callers>>
    /\ AuthFrame

\* a freshly loaded service account: no token yet, which is its first
\* invalid period
InitAuth ==
    /\ LockIdle
    /\ ScanIdle /\ WriteIdle /\ CacheIdle /\ CredIdle /\ CallIdle
    /\ now = 0
    /\ credentials = [type |-> "SERVICE_ACCOUNT", access_token |-> 0, token_expiry |-> 0]
    /\ callers = [c \in Callers |-> NewCaller]
    /\ authlog = [exchanges |-> 0, invalidations |-> 1, races |-> 0, calls |-> 0]

NextAuth ==
    \/ \E c \in Callers : RefreshTokenIfNeeded(c)
    \/ \E c \in Callers, ok \in BOOLEAN : ExchangeJWTForToken(c, ok)
    \/ \E c \in Callers : WriteToken(c)
    \/ \E c \in Callers : WriteExpiry(c)
    \/ \E c \in Callers, status_code \in Statuses : MakeRequest(c, status_code)
    \/ \E c \in Callers : Return(c)
    \/ Tick

SpecAuth == InitAuth /\ [][NextAuth]_vars

\* C12: for concurrent callers sharing one service-account credential whose
\* token is invalid, check-and-refresh is mutually exclusive: at most one
\* token exchange per invalidation, and no caller reads access_token or
\* token_expiry while another caller is writing them.
C12_RefreshMutuallyExclusive ==
    /\ authlog.exchanges <= authlog.invalidations
    /\ authlog.races = 0

\* C13: a 401 answer marks the token invalid, is followed by exactly one
\* inline refresh and one retry; an auth error surfaces to the caller only
\* after a second 401.
C13_SecondUnauthorizedSurfaces ==
    \A c \in Callers :
        (callers[c].pc = "done" /\ callers[c].result = "AUTH_TOKEN_EXPIRED")
            => callers[c].sent = 2

----------------------------------------------------------------------------
(* The schema cache: firestore_scanner.cpp, fire_duck_ext_extension.cpp    *)
(*                                                                         *)
(* Strings are sequences of characters, so that a cache key is built by    *)
(* concatenation and taken apart at its first colon as the source does.    *)

MaxOps == 3          \* binds, purges, settings and writes in one behaviour

\* the settings explored: every TTL the explored clock can outlive
TTLs == 0..(MaxTime - 1)

\* the contents of a collection: the fields of its documents, one field per
\* document
Contents == {<<>>, <<"a">>}

\* project ids of the explored credentials; the second is domain-scoped
\* ("example.com:proj")
CacheProjects == {<<"p">>, <<"d", ":", "p">>}

\* the collections bound in the explored behaviours
CacheCollections == {<<"u">>, <<"o">>}

\* cache_key = project_id + ":" + collection
CacheKey(project, collection) == project \o <<":">> \o collection

\* key.find(':'): the first position holding a colon, 0 for npos
RECURSIVE FindColon(_, _)
FindColon(key, i) ==
    IF i > Len(key) THEN 0
    ELSE IF key[i] = ":" THEN i
    ELSE FindColon(key, i + 1)

\* key.substr(colon_pos + 1)
CachedCollection(key) == SubSeq(key, FindColon(key, 1) + 1, Len(key))

\* NormalizeTTL / SetSchemaCacheTTLSeconds: a negative setting means 0
NormalizeTTL(value) == IF value < 0 THEN 0 ELSE value

\* CachedSchemaEntry::IsExpired with a zero TTL taken as a duration
IsExpiredByAgeOnly(entry, t, at) == at - entry.cached_at > t

\* CachedSchemaEntry::IsExpired
IsExpired(entry, t, at) ==
    IF t = 0 THEN TRUE
    ELSE at - entry.cached_at > t

\* InferSchema: the fields of the sampled documents, in the order first seen
RECURSIVE InferSchema(_)
InferSchema(documents) ==
    IF documents = <<>> THEN <<>>
    ELSE LET rest == InferSchema(Tail(documents))
         IN <<Head(documents)>> \o SelectSeq(rest, LAMBDA f : f # Head(documents))

\* the bind's test for a missing collection, never taken
SchemaEmptyIgnored(schema) == FALSE

\* the bind's test for a missing collection: schema.empty()
SchemaEmpty(schema) == schema = <<>>

\* schema_cache.erase(key)
Erase(cache, key) == [k \in DOMAIN cache \ {key} |-> cache[k]]

\* schema_cache[key] = entry
Store(cache, key, entry) == [k \in DOMAIN cache \cup {key} |-> IF k = key THEN entry ELSE cache[k]]

\* what the schema-cache machine leaves alone
CacheFrame == UNCHANGED <<pushVars, scanVars, writeVars, authVars, credVars, callVars,
                          lockVars>>

Logged(op, project, collection, outcome, fetches, schema) ==
    [seq |-> bindlog.seq + 1, op |-> op, project |-> project, collection |-> collection,
     outcome |-> outcome, fetches |-> fetches]

\* FirestoreScanBind from the cache key on: lookup, expiry, inference, the
\* index fetch and the store.  infer_ok and index_ok are the remote's
\* answers to the sample fetch and to the index fetch.
FirestoreScanBindSchema(project, collection, infer_ok, index_ok) ==
    /\ bindlog.seq < MaxOps
    /\ LET cache_key == CacheKey(project, collection)
           found == cache_key \in DOMAIN schema_cache
           fresh == found /\ ~IsExpired(schema_cache[cache_key], ttl, now)
           hit == fresh /\ schema_cache[cache_key].schema # <<>>
           \* an expired entry and an empty fresh entry are erased
           swept == IF found /\ ~hit THEN Erase(schema_cache, cache_key) ELSE schema_cache
           schema == InferSchema(firestore[project][collection])
       IN IF hit
          THEN /\ bindlog' = Logged("bind", project, collection, "hit", <<>>,
                                    schema_cache[cache_key].schema)
               /\ UNCHANGED schema_cache
          ELSE IF ~infer_ok
          THEN /\ bindlog' = Logged("bind", project, collection, "REQUEST_SERVER_ERROR",
                                    <<"InferSchema">>, <<>>)
               /\ schema_cache' = swept
          ELSE IF SchemaEmpty(schema)
          THEN /\ bindlog' = Logged("bind", project, collection, "NOT_FOUND_COLLECTION",
                                    <<"InferSchema">>, <<>>)
               /\ schema_cache' = swept
          ELSE /\ bindlog' = Logged("bind", project, collection, "inferred",
                                    IF index_ok
                                    THEN <<"InferSchema", "FetchCompositeIndexes",
                                           "CheckDefaultSingleFieldIndexes">>
                                    ELSE <<"InferSchema", "FetchCompositeIndexes">>,
                                    schema)
               /\ schema_cache' = Store(swept, cache_key,
                                        [schema |-> schema, fetch_succeeded |-> TRUE,
                                         cached_at |-> now])
    /\ UNCHANGED <<now, ttl, firestore>>
    /\ CacheFrame

\* ClearFirestoreSchemaCache: the cache it leaves
ClearFirestoreSchemaCache(cache, collection) ==
    IF collection = <<>> THEN <<>>
    ELSE LET kept == {key \in DOMAIN cache :
                         ~(FindColon(key, 1) # 0 /\ CachedCollection(key) = collection)}
         IN [key \in kept |-> cache[key]]

\* firestore_clear_cache(): FirestoreClearCacheFunction calls
\* ClearFirestoreSchemaCache with the bound collection ("" for the overload
\* without argument) and nothing else
FirestoreClearCacheFunction(collection) ==
    /\ bindlog.seq < MaxOps
    /\ schema_cache' = ClearFirestoreSchemaCache(schema_cache, collection)
    /\ bindlog' = Logged("clear_cache", <<>>, collection, "true", <<>>, <<>>)
    /\ UNCHANGED <<now, ttl, firestore>>
    /\ CacheFrame

\* SET firestore_schema_cache_ttl
SetSchemaCacheTTLSeconds(value) ==
    /\ bindlog.seq < MaxOps
    /\ ttl' = NormalizeTTL(value)
    /\ bindlog' = Logged("set", <<>>, <<>>, "ok", <<>>, <<>>)
    /\ UNCHANGED <<schema_cache, now, firestore>>
    /\ CacheFrame

\* documents are inserted into or deleted from a collection
WriteDocuments(project, collection, documents) ==
    /\ bindlog.seq < MaxOps
    /\ firestore[project][collection] # documents
    /\ firestore' = [firestore EXCEPT ![project][collection] = documents]
    /\ bindlog' = Logged("write", project, collection, "ok", <<>>, <<>>)
    /\ UNCHANGED <<schema_cache, now, ttl>>
    /\ CacheFrame

\* the steady clock advances
Advance ==
    /\ now < MaxTime
    /\ now' = now + 1
    /\ UNCHANGED <<schema_cache, ttl, firestore, bindlog>>
    /\ CacheFrame

\* an empty cache, any setting, any collection contents
InitCache ==
    /\ LockIdle
    /\ ScanIdle /\ WriteIdle /\ AuthIdle /\ CredIdle /\ CallIdle
    /\ schema_cache = <<>>
    /\ now = 0
    /\ ttl \in TTLs
    /\ firestore \in [CacheProjects -> [CacheCollections -> Contents]]
    /\ bindlog = [seq |-> 0, op |-> "none", project |-> <<>>, collection |-> <<>>,
                  outcome |-> "none", fetches |-> <<>>]

NextCache ==
    \/ \E project \in CacheProjects, collection \in CacheCollections,
          infer_ok \in BOOLEAN, index_ok \in BOOLEAN :
          FirestoreScanBindSchema(project, collection, infer_ok, index_ok)
    \/ \E collection \in CacheCollections \cup {<<>>} : FirestoreClearCacheFunction(collection)
    \/ \E value \in {-1} \cup TTLs : SetSchemaCacheTTLSeconds(value)
    \/ \E project \in CacheProjects, collection \in CacheCollections, documents \in Contents :
          WriteDocuments(project, collection, documents)
    \/ Advance

SpecCache == InitCache /\ [][NextCache]_vars

----------------------------------------------------------------------------
(* Claims about the schema cache *)

\* the step is a bind
IsBindStep == bindlog'.seq = bindlog.seq + 1 /\ bindlog'.op = "bind"

\* the key of the bind or purge last logged
LoggedKey(log) == CacheKey(log.project, log.collection)

NoEmptySchemaCached == \A key \in DOMAIN schema_cache : schema_cache[key].schema # <<>>

\* C16 as stated: the schema cache never holds an entry with an empty
\* schema, and a bind on a collection with no documents (whose sample fetch
\* is answered) raises NOT_FOUND_COLLECTION and leaves no entry for it.
C16_EmptyBindRaises ==
    /\ NoEmptySchemaCached
    /\ (/\ bindlog.op = "bind"
        /\ bindlog.outcome # "REQUEST_SERVER_ERROR"
        /\ firestore[bindlog.project][bindlog.collection] = <<>>)
          => /\ bindlog.outcome = "NOT_FOUND_COLLECTION"
             /\ LoggedKey(bindlog) \notin DOMAIN schema_cache

\* C16 amended: the schema cache never holds an entry with an empty schema,
\* and a bind on a collection with no documents that finds no unexpired
\* entry for its key (and whose sample fetch is answered) raises
\* NOT_FOUND_COLLECTION and leaves no entry for it.
C16_EmptyBindRaisesUnlessCached ==
    /\ []NoEmptySchemaCached
    /\ [][(/\ IsBindStep
           /\ bindlog'.outcome # "REQUEST_SERVER_ERROR"
           /\ firestore[bindlog'.project][bindlog'.collection] = <<>>
           /\ LET key == LoggedKey(bindlog')
              IN ~(key \in DOMAIN schema_cache /\ ~IsExpired(schema_cache[key], ttl, now)))
             => /\ bindlog'.outcome = "NOT_FOUND_COLLECTION"
                /\ LoggedKey(bindlog') \notin DOMAIN schema_cache']_vars

\* a bind on an emptied collection raised after its entry had expired, while
\* another collection stays cached
C16_Witness ==
    /\ bindlog.op = "bind"
    /\ bindlog.outcome = "NOT_FOUND_COLLECTION"
    /\ now > ttl
    /\ ttl > 0
    /\ LoggedKey(bindlog) \notin DOMAIN schema_cache
    /\ DOMAIN schema_cache # {}

\* C17: with a TTL T > 0 a bind whose entry is younger than T is served from
\* the cache with no sample or index fetch; a bind whose entry is older than
\* T removes the entry and infers again; with T = 0 no bind is served from
\* the cache.
C17_TTLGovernsCacheUse ==
    [][IsBindStep =>
         LET key == LoggedKey(bindlog')
             found == key \in DOMAIN schema_cache
             age == now - schema_cache[key].cached_at
         IN /\ (ttl > 0 /\ found /\ age < ttl)
                  => /\ bindlog'.outcome = "hit"
                     /\ bindlog'.fetches = <<>>
                     /\ schema_cache' = schema_cache
            /\ (ttl > 0 /\ found /\ age > ttl)
                  => /\ bindlog'.outcome # "hit"
                     /\ bindlog'.fetches # <<>>
                     /\ (key \in DOMAIN schema_cache' => schema_cache'[key].cached_at = now)
            /\ ttl = 0 => bindlog'.outcome # "hit" /\ bindlog'.fetches # <<>>]_vars

\* a bind was served from an entry stored earlier, within a positive TTL
C17_Witness ==
    /\ bindlog.op = "bind"
    /\ bindlog.outcome = "hit"
    /\ bindlog.fetches = <<>>
    /\ ttl > 0
    /\ LoggedKey(bindlog) \in DOMAIN schema_cache
    /\ now - schema_cache[LoggedKey(bindlog)].cached_at >= 1

\* C18: clear_cache() leaves the schema cache empty; clear_cache(c) removes
\* exactly the entries whose collection is c, for every project, and leaves
\* every other entry as it was.
C18_PurgeByCollection ==
    [][(bindlog'.seq = bindlog.seq + 1 /\ bindlog'.op = "clear_cache") =>
         LET c == bindlog'.collection
             purged == {CacheKey(project, c) : project \in CacheProjects}
         IN IF c = <<>> THEN DOMAIN schema_cache' = {}
            ELSE /\ DOMAIN schema_cache' = DOMAIN schema_cache \ purged
                 /\ \A key \in DOMAIN schema_cache' : schema_cache'[key] = schema_cache[key]]_vars

----------------------------------------------------------------------------
(* Credential resolution: firestore_secrets.cpp                            *)

MaxResolutions == 2  \* credential resolutions in one behaviour

\* "no value" of an optional parameter
None == "none"

Databases == {"(default)", "db2"}

\* the database_id values of the explored secrets: one name, the wildcard,
\* or a list of names
SecretDatabases ==
    {[kind |-> "VARCHAR", value |-> "(default)", list |-> {}],
     [kind |-> "VARCHAR", value |-> "db2", list |-> {}],
     [kind |-> "VARCHAR", value |-> "*", list |-> {}],
     [kind |-> "LIST", value |-> "", list |-> {"(default)", "db2"}]}

\* the secrets CREATE SECRET (TYPE firestore) can store, as
\* CreateFirestoreSecretFromConfig builds them
Secrets ==
    [auth_type : {"service_account", "api_key"}, database_id : SecretDatabases]

\* what the credential machine leaves alone
CredFrame == UNCHANGED <<pushVars, scanVars, writeVars, authVars, cacheVars, callVars,
                         lockVars>>

\* DatabaseMatchesSecret
DatabaseMatchesSecret(secret_db_value, target_db) ==
    IF secret_db_value.kind = "VARCHAR"
    THEN IF secret_db_value.value = "*" THEN TRUE ELSE secret_db_value.value = target_db
    ELSE IF secret_db_value.kind = "LIST" THEN target_db \in secret_db_value.list
    ELSE FALSE

\* PurgeSecretCredentialsCache: drop the keys that start with "secret:"
PurgeSecretCredentialsCache(cache) ==
    [key \in {k \in DOMAIN cache : k[1] # "secret:"} |-> cache[key]]

\* ClearFirestoreCredentialsCache.  No function of the extension calls it.
ClearFirestoreCredentialsCache(cache) == <<>>

\* EnsureFirestoreEnvSecret: registers the environment's service account as
\* the secret __firestore_env__ for "(default)" unless one is registered.
\* No function of the extension calls it.
EnsureFirestoreEnvSecret(store) ==
    IF ~store.env THEN store
    ELSE [store EXCEPT !.secrets =
             IF store.secrets # {} THEN @
             ELSE {[auth_type |-> "service_account",
                    database_id |-> [kind |-> "VARCHAR", value |-> "(default)", list |-> {}]]}]

\* a credential record built now: its identity is the resolution that built it
NewCredentials(type, source, database_id) ==
    [id |-> resolved.seq + 1, type |-> type, source |-> source, database_id |-> database_id]

\* nullptr
NoCredentials == [id |-> 0, type |-> None, source |-> None, database_id |-> None]

\* the result of a resolution: "ok" with the record returned, "none" for
\* nullptr, or the exception thrown; and the credential cache it leaves
Outcome(status, creds, cache) == [status |-> status, creds |-> creds, cache |-> cache]

\* GetFirestoreCredentialsFromSecret
GetFirestoreCredentialsFromSecret(target_database) ==
    IF secret_store.secrets = {}
    THEN Outcome("none", NoCredentials, PurgeSecretCredentialsCache(credentials_cache))
    ELSE LET secret == CHOOSE x \in secret_store.secrets : TRUE
         IN IF target_database # None /\ ~DatabaseMatchesSecret(secret.database_id, target_database)
            THEN Outcome("none", NoCredentials, credentials_cache)
            ELSE LET database_id ==
                         IF target_database # None THEN target_database
                         ELSE IF secret.database_id.kind = "VARCHAR" /\ secret.database_id.value # "*"
                         THEN secret.database_id.value
                         ELSE "(default)"
                     cache_key == <<"secret:", secret.auth_type, ":", database_id>>
                 IN IF cache_key \in DOMAIN credentials_cache
                    THEN Outcome("ok", credentials_cache[cache_key], credentials_cache)
                    ELSE LET creds == NewCredentials(IF secret.auth_type = "service_account"
                                                     THEN "SERVICE_ACCOUNT" ELSE "API_KEY",
                                                     "secret", database_id)
                         IN Outcome("ok", creds, Store(credentials_cache, cache_key, creds))

\* the resolver's last assignment, left out
ApplyEffectiveDatabaseSkipped(creds, effective_database_id) == creds

\* "Apply effective_database_id (overrides secret value)"
ApplyEffectiveDatabase(creds, effective_database_id) ==
    IF effective_database_id # None
    THEN [creds EXCEPT !.database_id = effective_database_id]
    ELSE creds

\* the body of ResolveFirestoreCredentials in a session whose connected
\* database is connected; load_ok tells whether the service-account file
\* can be read
ResolveCredentialsIn(connected, project_id, credentials_path, api_key, database_id, load_ok) ==
    LET effective_database_id == IF database_id # None THEN database_id
                                 ELSE connected
        db_suffix == IF effective_database_id # None THEN effective_database_id ELSE "(default)"
        should_cache == credentials_path # None
        cache_key == <<"path:", credentials_path, ":", db_suffix>>
    IN IF should_cache /\ cache_key \in DOMAIN credentials_cache
       THEN Outcome("ok", credentials_cache[cache_key], credentials_cache)
       ELSE LET found ==
                    IF credentials_path # None
                    THEN IF load_ok
                         THEN Outcome("ok", NewCredentials("SERVICE_ACCOUNT", "path", "(default)"),
                                      credentials_cache)
                         ELSE Outcome("AUTH_SERVICE_ACCOUNT_FILE", NoCredentials, credentials_cache)
                    ELSE IF api_key # None
                    THEN IF project_id = None
                         THEN Outcome("InvalidInputException", NoCredentials, credentials_cache)
                         ELSE Outcome("ok", NewCredentials("API_KEY", "api_key", "(default)"),
                                      credentials_cache)
                    ELSE GetFirestoreCredentialsFromSecret(effective_database_id)
            IN IF found.status # "ok"
               THEN found
               ELSE LET creds == ApplyEffectiveDatabase(found.creds, effective_database_id)
                        \* the record is shared: the assignment shows in the cache too
                        cache == [k \in DOMAIN found.cache |->
                                     IF found.cache[k].id = creds.id THEN creds ELSE found.cache[k]]
                    IN Outcome("ok", creds,
                               IF should_cache THEN Store(cache, cache_key, creds) ELSE cache)

\* the resolution in the one session of the credential machine
ResolveCredentials(project_id, credentials_path, api_key, database_id, load_ok) ==
    ResolveCredentialsIn(secret_store.connected, project_id, credentials_path, api_key,
                         database_id, load_ok)

\* a bind of scan or of a write function resolves its credentials
ResolveFirestoreCredentials(project_id, credentials_path, api_key, database_id, load_ok) ==
    /\ resolved.seq < MaxResolutions
    /\ LET r == ResolveCredentials(project_id, credentials_path, api_key, database_id, load_ok)
       IN /\ credentials_cache' = r.cache
          /\ resolved' = [seq |-> resolved.seq + 1, op |-> "resolve",
                          project_id |-> project_id, credentials_path |-> credentials_path,
                          api_key |-> api_key, database_id |-> database_id,
                          status |-> r.status, creds |-> r.creds]
    /\ UNCHANGED secret_store
    /\ CredFrame

\* firestore_connect(database_id): checks that credentials resolve for the
\* database, then records it for the session
FirestoreConnectFunction(database_id) ==
    /\ resolved.seq < MaxResolutions
    /\ LET r == ResolveCredentials(None, None, None, database_id, TRUE)
       IN /\ credentials_cache' = r.cache
          /\ resolved' = [seq |-> resolved.seq + 1, op |-> "connect",
                          project_id |-> None, credentials_path |-> None,
                          api_key |-> None, database_id |-> database_id,
                          status |-> r.status, creds |-> r.creds]
          /\ secret_store' = IF r.status # "ok" THEN secret_store
                             ELSE [secret_store EXCEPT !.connected = database_id]
    /\ CredFrame

\* firestore_disconnect()
FirestoreDisconnectFunction ==
    /\ secret_store.connected # None
    /\ secret_store' = [secret_store EXCEPT !.connected = None]
    /\ UNCHANGED <<credentials_cache, resolved>>
    /\ CredFrame

\* CREATE OR REPLACE SECRET / DROP SECRET
SetSecrets(secrets) ==
    /\ secret_store.secrets # secrets
    /\ secret_store' = [secret_store EXCEPT !.secrets = secrets]
    /\ UNCHANGED <<credentials_cache, resolved>>
    /\ CredFrame

\* an empty credential cache, any environment
InitCreds ==
    /\ LockIdle
    /\ ScanIdle /\ WriteIdle /\ AuthIdle /\ CacheIdle /\ CallIdle
    /\ now = 0
    /\ credentials_cache = <<>>
    /\ \E env \in BOOLEAN : secret_store = [secrets |-> {}, env |-> env, connected |-> None]
    /\ resolved = [seq |-> 0, op |-> "none", project_id |-> None, credentials_path |-> None,
                   api_key |-> None, database_id |-> None,
                   status |-> "none", creds |-> NoCredentials]

NextCreds ==
    \/ \E project_id \in {None, "p"}, credentials_path \in {None, "sa.json"},
          api_key \in {None, "k"}, database_id \in {None} \cup Databases, load_ok \in BOOLEAN :
          ResolveFirestoreCredentials(project_id, credentials_path, api_key, database_id, load_ok)
    \/ \E database_id \in Databases : FirestoreConnectFunction(database_id)
    \/ FirestoreDisconnectFunction
    \/ \E secrets \in {{}} \cup {{x} : x \in Secrets} : SetSecrets(secrets)
    \/ \E collection \in CacheCollections \cup {<<>>} : FirestoreClearCacheFunction(collection)

SpecCreds == InitCreds /\ [][NextCreds]_vars

\* resolution alone, with no cache purge
NextResolve ==
    \/ \E project_id \in {None, "p"}, credentials_path \in {None, "sa.json"},
          api_key \in {None, "k"}, database_id \in {None} \cup Databases, load_ok \in BOOLEAN :
          ResolveFirestoreCredentials(project_id, credentials_path, api_key, database_id, load_ok)
    \/ \E database_id \in Databases : FirestoreConnectFunction(database_id)
    \/ FirestoreDisconnectFunction
    \/ \E secrets \in {{}} \cup {{x} : x \in Secrets} : SetSecrets(secrets)

SpecResolve == InitCreds /\ [][NextResolve]_vars

----------------------------------------------------------------------------
(* Claims about credentials *)

\* C19: after an explicit clear_cache call the process-wide credential cache
\* holds no entries, so the next resolution builds a fresh record.
C19_ClearCachePurgesCredentials ==
    [][(bindlog'.seq = bindlog.seq + 1 /\ bindlog'.op = "clear_cache")
          => DOMAIN credentials_cache' = {}]_vars

\* the source the priority order selects: the first applicable of explicit
\* path, explicit api_key with project_id, a secret for the effective
\* database, the environment's GOOGLE_APPLICATION_CREDENTIALS
FirstApplicableSource(r, store) ==
    LET effective == IF r.database_id # None THEN r.database_id ELSE store.connected
    IN IF r.credentials_path # None THEN "path"
       ELSE IF r.api_key # None /\ r.project_id # None THEN "api_key"
       ELSE IF \E x \in store.secrets :
                  effective = None \/ DatabaseMatchesSecret(x.database_id, effective)
       THEN "secret"
       ELSE IF store.env THEN "env"
       ELSE None

\* C20: a resolution returns the credential of the first applicable source
\* in the order path, api_key with project_id, secret store, environment; it
\* returns no credential only when all four are absent.
C20_FirstApplicableSourceWins ==
    [][(/\ resolved'.seq = resolved.seq + 1
        /\ resolved'.op = "resolve"
        /\ resolved'.status \in {"ok", "none"})
          => LET expected == FirstApplicableSource(resolved', secret_store)
             IN IF resolved'.status = "none" THEN expected = None
                ELSE resolved'.creds.source = expected]_vars

\* the step is a credential resolution that returned a record
IsResolvedStep ==
    /\ resolved'.seq = resolved.seq + 1
    /\ resolved'.op = "resolve"
    /\ resolved'.status = "ok"

----------------------------------------------------------------------------
(* Claims about the write functions' result row and the array append *)

\* C22: every write function that completes without error emits exactly one
\* row, holding its count, over its whole lifetime: the row is emitted at
\* completion, and every later pull emits no row and repeats no remote write.
C22_OneCountRow ==
    /\ [](/\ Len(wout) <= 1
          /\ wr.count_emitted => Len(wout) = 1
          /\ wout # <<>> => wout[1] = wr.rows_inserted /\ wr.status = "running")
    /\ [][wout # <<>> => (wout' = wout /\ wlog' = wlog /\ remote' = remote)]_vars

\* an array append finished with its count row, and was pulled again
C22_Witness ==
    /\ wr.op = "array_append"
    /\ wr.pulled_when_done
    /\ wout = <<1>>
    /\ Len(wlog) = 2

\* C26: without concurrent writers array_append leaves the field equal to
\* the array read from the document followed by the given elements in
\* order, duplicates kept; a missing or non-array field counts as empty.
C26_AppendKeepsDuplicates ==
    [][(/\ wr.op = "array_append"
        /\ ~wr.count_emitted
        /\ wr'.count_emitted
        /\ wout' = <<1>>)
          => /\ remote'.doc.exists
             /\ remote'.doc.kind = "array"
             /\ remote'.doc.values =
                   (IF remote.doc.kind = "array" THEN remote.doc.values ELSE <<>>) \o wr.elements]_vars

\* ['a'] appended with ['a'] became ['a', 'a']
C26_Witness ==
    /\ wr.op = "array_append"
    /\ wr.count_emitted
    /\ wr.elements = <<"a">>
    /\ remote.doc.values = <<"a", "a">>
    /\ wlog[2].body = <<"a", "a">>

----------------------------------------------------------------------------
(***************************************************************************)
(* The __document_id of an emitted row (firestore_client.cpp 215-244,       *)
(* firestore_scanner.cpp 588-612).  A document name is the sequence of its  *)
(* '/'-separated segments, a document id the sequence of the segments it    *)
(* keeps; both rfind('/') and find("/documents/") are searches for a        *)
(* segment boundary, so they are computed on the segments.                  *)
(***************************************************************************)
CallFrame == UNCHANGED <<pushVars, scanVars, writeVars, authVars, cacheVars, credVars,
                         lockVars>>

\* project ids, database ids and the segments of document paths; a database
\* may be named "documents" (lowercase letters, 4 to 63 characters)
ProjectIds == {"p"}
DatabaseIds == {"d", "documents"}
PathSegments == {"users", "u1", "documents"}

\* collection/document/... paths of one or two levels
DocumentPaths == {<<a, b>> : a \in PathSegments, b \in PathSegments}
                   \cup {<<a, b, c, d>> : a \in PathSegments, b \in PathSegments,
                                          c \in PathSegments, d \in PathSegments}

\* the name the service gives a document
DocumentName(project_id, database_id, path) ==
    <<"projects", project_id, "databases", database_id, "documents">> \o path

\* ExtractDocumentId: what follows the last '/', the whole text without one
ExtractDocumentId(path) == IF Len(path) <= 1 THEN path ELSE <<path[Len(path)]>>

\* ParseDocument
ParseDocument(doc_json) == [name |-> doc_json.name, document_id |-> ExtractDocumentId(doc_json.name)]

\* the fetch paths and whether each serves a collection-group scan: the
\* list endpoint serves plain scans, CollectionGroupQuery `~` scans, RunQuery
\* both, and a downgraded scan refetches through one of the first two
FetchPaths == {"list", "collection_group_query", "run_query", "downgrade"}

Fetcher(fetch_path, is_collection_group) ==
    IF fetch_path = "downgrade"
    THEN (IF is_collection_group THEN "collection_group_query" ELSE "list")
    ELSE fetch_path

\* the documents of one response: ListDocuments parses every entry of
\* "documents", RunQuery and CollectionGroupQuery every item that holds a
\* "document"
ResponseDocuments(fetcher, response) ==
    LET items == IF fetcher = "list" THEN response
                 ELSE SelectSeq(response, LAMBDA item : item.has_document)
    IN [i \in 1..Len(items) |-> ParseDocument(items[i])]

\* the position of the first "/documents/" of a name, 0 without one: a
\* segment "documents" with a segment on either side
FindMarker(name) ==
    LET hits == {i \in 2..(Len(name) - 1) : name[i] = "documents"}
    IN IF hits = {} THEN 0 ELSE CHOOSE i \in hits : \A j \in hits : i <= j

\* the COLUMN_IDENTIFIER_ROW_ID branch of FirestoreScanFunction
DocumentIdColumn(doc, is_collection_group) ==
    IF is_collection_group
    THEN LET pos == FindMarker(doc.name)
         IN IF pos # 0 THEN SubSeq(doc.name, pos + 1, Len(doc.name)) ELSE doc.name
    ELSE doc.document_id

\* a fetch answers with one document, after a documentless item for the
\* query endpoints that may send one
FetchDocuments ==
    /\ input.fn = "scan" /\ output.pc = "none"
    /\ LET fetcher == Fetcher(input.fetch_path, input.is_collection_group)
           named == [has_document |-> TRUE,
                     name |-> DocumentName(input.project_id, input.database_id, input.path)]
           response == IF fetcher = "list" THEN <<named>>
                       ELSE <<[has_document |-> FALSE, name |-> <<>>], named>>
       IN output' = [pc |-> "fetched", documents |-> ResponseDocuments(fetcher, response)]
    /\ UNCHANGED input
    /\ CallFrame

\* FirestoreScanFunction fills the __document_id column of the rows
EmitDocumentIds ==
    /\ input.fn = "scan" /\ output.pc = "fetched"
    /\ output' = [pc |-> "emitted",
                  rows |-> [i \in 1..Len(output.documents) |->
                               DocumentIdColumn(output.documents[i], input.is_collection_group)]]
    /\ UNCHANGED input
    /\ CallFrame

InitDocumentId ==
    /\ LockIdle
    /\ ScanIdle /\ WriteIdle /\ AuthIdle /\ CacheIdle /\ CredIdle /\ now = 0
    /\ \E project_id \in ProjectIds, database_id \in DatabaseIds, path \in DocumentPaths,
          fetch_path \in FetchPaths, is_collection_group \in BOOLEAN :
          /\ fetch_path = "list" => ~is_collection_group
          /\ fetch_path = "collection_group_query" => is_collection_group
          /\ input = [fn |-> "scan", project_id |-> project_id, database_id |-> database_id,
                      path |-> path, fetch_path |-> fetch_path,
                      is_collection_group |-> is_collection_group]
    /\ output = [pc |-> "none"]

NextDocumentId ==
    \/ FetchDocuments
    \/ EmitDocumentIds

SpecDocumentId == InitDocumentId /\ [][NextDocumentId]_vars

\* C23: every emitted row's __document_id is the final segment of the
\* document's name for a plain collection and the document's full path below
\* the database's documents root for a `~` collection, whichever fetch path
\* produced the document.
C23_DocumentIdByPrefix ==
    output.pc = "emitted" =>
        /\ Len(output.rows) = 1
        /\ output.rows[1] = IF input.is_collection_group
                            THEN input.path
                            ELSE <<input.path[Len(input.path)]>>

----------------------------------------------------------------------------
(***************************************************************************)
(* The size limit of IN filters (firestore_index.cpp 380-447): the planner  *)
(* run on one disjunction of k equalities on one field column.              *)
(***************************************************************************)
MaxDisjuncts == 32   \* longest disjunction explored, beyond IN_LIMIT

\* (x = v1) OR ... OR (x = vk) as the host hands it over; the constant may
\* stand on either side of every equality
Disjunction(k, col, rev) == Conj("CONJUNCTION_OR", [i \in 1..k |-> Cmp("COMPARE_EQUAL", col, rev)])

InitInLimit ==
    /\ LockIdle
    /\ \E k \in 1..MaxDisjuncts, col \in 1..2, rev \in BOOLEAN :
          filters = <<Disjunction(k, col, rev)>>
    /\ get = [column_ids |-> <<0, 1, 2, 3>>, file_filters |-> <<>>]
    /\ \E dflt \in BOOLEAN : server_indexes = [listed |-> <<>>, default_enabled |-> dflt]
    /\ \E collection \in Collections : ScanStart(collection, NoLimit)
    /\ service = [ndocs |-> 1, matching |-> {1}]
    /\ WriteIdle
    /\ AuthIdle /\ CacheIdle /\ CredIdle /\ CallIdle /\ now = 0

SpecInLimit == InitInLimit /\ [][NextPushdown]_vars

\* the IN filter the claim expects of the disjunction in the filter vector
ExpectedIn ==
    InFilter(ResolveColumn(filters[1].children[1].column_index, get.column_ids),
             Len(filters[1].children))

\* C24: a disjunction of k equalities on one field column becomes a single IN
\* candidate with k values iff k <= 30; the candidate is pushed, and is the
\* where clause of the first request (kept when that request succeeds), when
\* the field is indexed; for k > 30 there is no candidate, nothing is pushed
\* and no query is run.
C24_InLimit ==
    LET k == Len(filters[1].children)
        indexed == bind_data.index_cache.default_single_field_enabled
    IN /\ phase \in {"planned", "streaming", "init_error"} =>
            /\ bind_data.candidate_pushdown_filters =
                   IF k <= 30 THEN <<ExpectedIn>> ELSE <<>>
            /\ get.file_filters = IF k <= 30 /\ indexed THEN <<ExpectedIn>> ELSE <<>>
       /\ phase \in {"streaming", "init_error"} =>
            /\ (requests[1].op = "run_query") = (k <= 30 /\ indexed)
            /\ requests[1].ok /\ phase = "streaming" =>
                  global_state.pushdown_result = get.file_filters

\* a disjunction of exactly 30 equalities went to the service as one IN filter
C24_Witness ==
    /\ phase = "streaming"
    /\ Len(filters[1].children) = 30
    /\ get.file_filters = <<InFilter("a", 30)>>
    /\ global_state.structured_query.where = <<InFilter("a", 30)>>
    /\ Len(requests) = 1 /\ requests[1].op = "run_query"
    /\ requests[1].ok /\ requests[1].ndocs = 1

----------------------------------------------------------------------------
(***************************************************************************)
(* The taxonomy of HTTP errors (firestore_client.cpp 172-213,               *)
(* firestore_error.hpp 23-127): MakeRequest hands every status to           *)
(* HandleError; the category of the raised code is its top byte.            *)
(***************************************************************************)
MaxStatus == 599     \* highest HTTP status explored

HttpStatuses == 100..MaxStatus

\* FirestoreErrorCode: the 32-bit values of the codes HandleError raises, as
\* their upper and lower 16 bits
ErrorCodeValue(code) ==
    CASE code = "AUTH_TOKEN_EXPIRED" -> <<259, 4>>       \* 0x0103 0004
      [] code = "PERMISSION_DENIED" -> <<513, 1>>        \* 0x0201 0001
      [] code = "NOT_FOUND_DOCUMENT" -> <<769, 1>>       \* 0x0301 0001
      [] code = "REQUEST_RATE_LIMITED" -> <<1283, 1>>    \* 0x0503 0001
      [] code = "REQUEST_SERVER_ERROR" -> <<1284, 1>>    \* 0x0504 0001
      [] code = "INTERNAL_UNEXPECTED" -> <<65280, 1>>    \* 0xFF00 0001

\* GetErrorCategory: (code >> 24) & 0xFF, the top byte of the upper half
GetErrorCategory(code) == (code[1] \div 256) % 256

\* the taxonomy's name of a category byte
CategoryName(category) ==
    CASE category = 1 -> "auth"
      [] category = 2 -> "permission"
      [] category = 3 -> "not_found"
      [] category = 4 -> "network"
      [] category = 5 -> "request"
      [] category = 255 -> "internal"
      [] OTHER -> "other"

\* MakeRequest from the response on: HandleError returns or raises
ReceiveResponse ==
    /\ input.fn = "request" /\ output.pc = "none"
    /\ LET raised == HandleError(input.status_code)
       IN output' = IF raised = "ok"
                    THEN [pc |-> "returned", code |-> <<0, 0>>, category |-> "none"]
                    ELSE [pc |-> "raised", code |-> ErrorCodeValue(raised),
                          category |-> CategoryName(GetErrorCategory(ErrorCodeValue(raised)))]
    /\ UNCHANGED input
    /\ CallFrame

InitHandleError ==
    /\ LockIdle
    /\ ScanIdle /\ WriteIdle /\ AuthIdle /\ CacheIdle /\ CredIdle /\ now = 0
    /\ \E status_code \in HttpStatuses : input = [fn |-> "request", status_code |-> status_code]
    /\ output = [pc |-> "none"]

NextHandleError == ReceiveResponse

SpecHandleError == InitHandleError /\ [][NextHandleError]_vars

\* C25: HandleError raises nothing for 2xx and otherwise raises an error whose
\* category is auth for 401, permission for 403, not_found for 404 and
\* request for 429, every 5xx and every other 4xx.
C25_StatusTaxonomy ==
    LET s == input.status_code
    IN output.pc # "none" =>
          IF s >= 200 /\ s < 300 THEN output.pc = "returned"
          ELSE /\ output.pc = "raised"
               /\ s = 401 => output.category = "auth"
               /\ s = 403 => output.category = "permission"
               /\ s = 404 => output.category = "not_found"
               /\ (s >= 400 /\ s \notin {401, 403, 404}) => output.category = "request"

----------------------------------------------------------------------------
(***************************************************************************)
(* The value codec (firestore_types.cpp 14-535).  A Firestore value is its  *)
(* envelope [kind, value]; a DuckDB value carries its type, a null flag and *)
(* a payload.  Texts that the codec parses or prints (decimal integers,     *)
(* timestamps, base64) are kept as texts and parsed and printed here.       *)
(***************************************************************************)
MaxFrac == 7         \* fraction digits of the explored timestamps (DuckDB keeps 6)
MaxBytes == 2        \* bytes of the explored blobs

LogicalType(id, child) == [id |-> id, child |-> child]
Envelope(kind, value) == [kind |-> kind, value |-> value]
Value(type, payload) == [type |-> type, is_null |-> FALSE, value |-> payload]
NullValue(type) == [type |-> type, is_null |-> TRUE, value |-> 0]

\* ---- decimal integers: std::stoll and std::to_string ----
Digits == <<"0", "1", "2", "3", "4", "5", "6", "7", "8", "9">>
DigitValue(c) == (CHOOSE i \in 1..10 : Digits[i] = c) - 1

RECURSIVE StoLLDigits(_, _)
StoLLDigits(text, acc) ==
    IF text = <<>> THEN acc ELSE StoLLDigits(Tail(text), acc * 10 + DigitValue(Head(text)))

StoLL(text) == IF Head(text) = "-" THEN 0 - StoLLDigits(Tail(text), 0) ELSE StoLLDigits(text, 0)

RECURSIVE NaturalToString(_)
NaturalToString(n) ==
    IF n < 10 THEN <<Digits[n + 1]>> ELSE NaturalToString(n \div 10) \o <<Digits[(n % 10) + 1]>>

ToDecimalString(n) == IF n < 0 THEN <<"-">> \o NaturalToString(0 - n) ELSE NaturalToString(n)

\* ---- timestamps: Timestamp::FromString and Timestamp::ToString ----
\* a timestamp text is its date-and-time part, the separator between date and
\* time, the digits after the decimal point and the zone suffix
TimestampText(datetime, sep, frac, zone) ==
    [datetime |-> datetime, sep |-> sep, frac |-> frac, zone |-> zone]

RECURSIVE MicrosOf(_, _)
\* the first six fraction digits as microseconds; further digits are dropped
MicrosOf(frac, place) ==
    IF frac = <<>> \/ place = 0 THEN 0
    ELSE Head(frac) * place + MicrosOf(Tail(frac), place \div 10)

FromString(text) == [datetime |-> text.datetime, micros |-> MicrosOf(text.frac, 100000)]

RECURSIVE TrimZeros(_)
TrimZeros(frac) ==
    IF frac # <<>> /\ frac[Len(frac)] = 0 THEN TrimZeros(SubSeq(frac, 1, Len(frac) - 1)) ELSE frac

\* the six digits of a microsecond count
MicrosDigits(micros) == [i \in 1..6 |-> (micros \div (10 ^ (6 - i))) % 10]

TimestampToString(ts) == TimestampText(ts.datetime, " ", TrimZeros(MicrosDigits(ts.micros)), "")

\* C27 mutant: the printed timestamp is sent without its zone suffix
IsoTextWithoutZone(ts_str) == [ts_str EXCEPT !.sep = IF @ = " " THEN "T" ELSE @]

\* the encoder's ISO 8601 form: the space becomes 'T' and 'Z' is appended
IsoText(ts_str) == [ts_str EXCEPT !.sep = IF @ = " " THEN "T" ELSE @, !.zone = @ \o "Z"]

\* the decoder's form for parsing: a trailing 'Z' removed, 'T' made a space
ParseText(ts_str) ==
    [ts_str EXCEPT !.zone = IF @ = "Z" THEN "" ELSE @, !.sep = IF @ = "T" THEN " " ELSE @]

\* ---- base64: a text is its 6-bit symbols and its '=' padding ----
Base64Text(sextets, pad) == [sextets |-> sextets, pad |-> pad]

Base64Decode(encoded) ==
    LET s == encoded.sextets
        b1 == s[1] * 4 + s[2] \div 16
        b2 == (s[2] % 16) * 16 + s[3] \div 4
        b3 == (s[3] % 4) * 64 + s[4]
    IN CASE Len(s) = 2 -> <<b1>>
         [] Len(s) = 3 -> <<b1, b2>>
         [] Len(s) = 4 -> <<b1, b2, b3>>
         [] OTHER -> <<>>

Base64Encode(data) ==
    CASE Len(data) = 1 -> Base64Text(<<data[1] \div 4, (data[1] % 4) * 16>>, 2)
      [] Len(data) = 2 ->
            Base64Text(<<data[1] \div 4, (data[1] % 4) * 16 + data[2] \div 16,
                         (data[2] % 16) * 4>>, 1)
      [] Len(data) = 3 ->
            Base64Text(<<data[1] \div 4, (data[1] % 4) * 16 + data[2] \div 16,
                         (data[2] % 16) * 4 + data[3] \div 64, data[3] % 64>>, 0)
      [] OTHER -> Base64Text(<<>>, 0)

\* ---- envelopes ----
\* json::dump of the explored "fields" objects
Dump(fields) ==
    CASE fields = "empty" -> "{}"
      [] fields = "x" -> "{\"x\":{\"stringValue\":\"a\"}}"

MapValue(fields) == Envelope("mapValue", [vector |-> FALSE, fields |-> fields, values |-> <<>>])
VectorValue(values) == Envelope("mapValue", [vector |-> TRUE, fields |-> "vector", values |-> values])
NullEnvelope == Envelope("nullValue", 0)

\* IsFirestoreVector
IsFirestoreVector(fv) == fv.kind = "mapValue" /\ fv.value.vector

\* GetFirestoreTypeName
GetFirestoreTypeName(fv) == IF IsFirestoreVector(fv) THEN "vectorValue" ELSE fv.kind

\* the element type of an array column: the commonest kind of its non-null
\* elements, VARCHAR for none and for the complex kinds
InferArrayElementType(values) ==
    LET kinds == {GetFirestoreTypeName(values[i]) : i \in 1..Len(values)} \ {"nullValue"}
        count(k) == Cardinality({i \in 1..Len(values) : GetFirestoreTypeName(values[i]) = k})
        best == IF kinds = {} THEN "stringValue"
                ELSE CHOOSE k \in kinds : \A o \in kinds : count(k) >= count(o)
    IN CASE best = "integerValue" -> "BIGINT"
         [] best = "doubleValue" -> "DOUBLE"
         [] best = "booleanValue" -> "BOOLEAN"
         [] OTHER -> "VARCHAR"

\* the column type schema inference gives a value: FirestoreTypeToDuckDB, the
\* element type for arrays and the dimension for vectors
InferDuckDBType(fv) ==
    LET kind == GetFirestoreTypeName(fv)
    IN CASE kind = "integerValue" -> LogicalType("BIGINT", "")
         [] kind = "doubleValue" -> LogicalType("DOUBLE", "")
         [] kind = "booleanValue" -> LogicalType("BOOLEAN", "")
         [] kind = "timestampValue" -> LogicalType("TIMESTAMP", "")
         [] kind = "bytesValue" -> LogicalType("BLOB", "")
         [] kind = "geoPointValue" -> LogicalType("STRUCT", "geopoint")
         [] kind = "arrayValue" -> LogicalType("LIST", InferArrayElementType(fv.value))
         [] kind = "vectorValue" ->
               IF Len(fv.value.values) > 0 THEN LogicalType("ARRAY", "DOUBLE")
               ELSE LogicalType("LIST", "DOUBLE")
         [] OTHER -> LogicalType("VARCHAR", "")

\* one element of an arrayValue under the list's element type; elements whose
\* kind the element type does not hold become their text
ArrayElement(elem, element_type) ==
    CASE elem.kind = "nullValue" -> NullValue(element_type)
      [] elem.kind = "stringValue" -> Value("VARCHAR", elem.value)
      [] elem.kind = "integerValue" ->
            IF element_type \in {"BIGINT", "DOUBLE"} THEN Value(element_type, StoLL(elem.value))
            ELSE Value("VARCHAR", elem.value)
      [] elem.kind = "doubleValue" ->
            IF element_type \in {"BIGINT", "DOUBLE"} THEN Value(element_type, elem.value)
            ELSE Value("VARCHAR", "double")
      [] elem.kind = "booleanValue" ->
            IF element_type = "BOOLEAN" THEN Value("BOOLEAN", elem.value)
            ELSE Value("VARCHAR", IF elem.value THEN "true" ELSE "false")
      [] elem.kind = "mapValue" -> Value("VARCHAR", Dump(elem.value.fields))
      [] OTHER -> Value("VARCHAR", "json")

FirestoreValueToDuckDB(fv, target_type) ==
    CASE fv.kind = "nullValue" -> NullValue(target_type.id)
      [] fv.kind = "stringValue" -> Value("VARCHAR", fv.value)
      [] fv.kind = "integerValue" -> Value("BIGINT", StoLL(fv.value))
      [] fv.kind = "doubleValue" -> Value("DOUBLE", fv.value)
      [] fv.kind = "booleanValue" -> Value("BOOLEAN", fv.value)
      [] fv.kind = "timestampValue" -> Value("TIMESTAMP", FromString(ParseText(fv.value)))
      [] fv.kind = "geoPointValue" -> Value("STRUCT", fv.value)
      [] fv.kind = "arrayValue" ->
            LET element_type == IF target_type.id = "LIST" THEN target_type.child ELSE "VARCHAR"
            IN Value("LIST", [i \in 1..Len(fv.value) |-> ArrayElement(fv.value[i], element_type)])
      [] IsFirestoreVector(fv) ->
            Value(IF target_type.id = "ARRAY" THEN "ARRAY" ELSE "LIST",
                  [i \in 1..Len(fv.value.values) |-> Value("DOUBLE", fv.value.values[i].value)])
      [] fv.kind = "mapValue" -> Value("VARCHAR", Dump(fv.value.fields))
      [] fv.kind = "referenceValue" -> Value("VARCHAR", fv.value)
      [] fv.kind = "bytesValue" -> Value("BLOB", Base64Decode(fv.value))

\* the scalar cases of DuckDBValueToFirestore
ScalarToFirestore(value, type_id) ==
    IF value.is_null THEN NullEnvelope
    ELSE CASE type_id = "VARCHAR" -> Envelope("stringValue", value.value)
           [] type_id = "BIGINT" -> Envelope("integerValue", ToDecimalString(value.value))
           [] type_id = "DOUBLE" -> Envelope("doubleValue", value.value)
           [] type_id = "BOOLEAN" -> Envelope("booleanValue", value.value)
           [] type_id = "TIMESTAMP" ->
                 Envelope("timestampValue", IsoText(TimestampToString(value.value)))
           [] type_id = "BLOB" -> Envelope("bytesValue", Base64Encode(value.value))
           [] type_id = "STRUCT" -> Envelope("geoPointValue", value.value)

DuckDBValueToFirestore(value, source_type) ==
    IF value.is_null THEN NullEnvelope
    ELSE CASE source_type.id = "LIST" ->
                 Envelope("arrayValue",
                          [i \in 1..Len(value.value) |->
                              ScalarToFirestore(value.value[i], source_type.child)])
           [] source_type.id = "ARRAY" ->
                 VectorValue([i \in 1..Len(value.value) |->
                                 Envelope("doubleValue",
                                          IF value.value[i].is_null THEN 0
                                          ELSE value.value[i].value)])
           [] OTHER -> ScalarToFirestore(value, source_type.id)

\* ---- the explored well-formed envelopes ----
Doubles == {0, 15, -25}     \* tenths
IntegerTexts == {<<"0">>, <<"7">>, <<"-", "7">>, <<"1", "2">>, <<"-", "1", "0", "5">>}
FracDigits == {0, 5}
Sextets == {0, 16, 60, 63}

TimestampTexts ==
    {TimestampText("2024-01-15 10:30:00", "T", frac, "Z") : frac \in SeqsUpTo(FracDigits, MaxFrac)}

Base64Texts ==
    {Base64Text(s, IF Len(s) = 0 THEN 0 ELSE 4 - Len(s)) :
        s \in {<<>>} \cup UNION {[1..n -> Sextets] : n \in 2..(MaxBytes + 1)}}

ScalarEnvelopes ==
    {Envelope("stringValue", s) : s \in {"", "a"}}
      \cup {Envelope("integerValue", t) : t \in IntegerTexts}
      \cup {Envelope("doubleValue", d) : d \in Doubles}
      \cup {Envelope("booleanValue", b) : b \in BOOLEAN}

\* arrays of one kind of element, nulls among them
ArrayEnvelopes ==
    {Envelope("arrayValue", a) :
        a \in {s \in SeqsUpTo(ScalarEnvelopes \cup {NullEnvelope, MapValue("x")}, MaxElems) :
                  \A i, j \in 1..Len(s) :
                     s[i].kind = s[j].kind \/ "nullValue" \in {s[i].kind, s[j].kind}}}

Envelopes ==
    ScalarEnvelopes
      \cup {Envelope("timestampValue", t) : t \in TimestampTexts}
      \cup {Envelope("bytesValue", b) : b \in Base64Texts}
      \cup {Envelope("referenceValue", "projects/p/databases/d/documents/u/1")}
      \cup {Envelope("geoPointValue", [latitude |-> lat, longitude |-> lng]) :
               lat \in Doubles, lng \in Doubles}
      \cup ArrayEnvelopes
      \cup {MapValue("empty"), MapValue("x")}
      \cup {VectorValue(v) : v \in {s \in SeqsUpTo({Envelope("doubleValue", d) : d \in Doubles},
                                                   MaxElems) : s # <<>>}}

\* ---- the round trip of one value ----
Decode ==
    /\ input.fn = "codec" /\ output.pc = "none"
    /\ output' = [pc |-> "decoded",
                  value |-> FirestoreValueToDuckDB(input.fv, input.target_type)]
    /\ UNCHANGED input
    /\ CallFrame

Encode ==
    /\ input.fn = "codec" /\ output.pc = "decoded"
    /\ output' = [pc |-> "encoded",
                  result |-> DuckDBValueToFirestore(output.value, input.target_type)]
    /\ UNCHANGED input
    /\ CallFrame

InitCodec ==
    /\ LockIdle
    /\ ScanIdle /\ WriteIdle /\ AuthIdle /\ CacheIdle /\ CredIdle /\ now = 0
    /\ \E fv \in Envelopes : input = [fn |-> "codec", fv |-> fv, target_type |-> InferDuckDBType(fv)]
    /\ output = [pc |-> "none"]

NextCodec ==
    \/ Decode
    \/ Encode

SpecCodec == InitCodec /\ [][NextCodec]_vars

\* equality of two envelopes up to timestamp precision and base64 normalisation
EqualUpToCanonicalization(r, v) ==
    /\ GetFirestoreTypeName(r) = GetFirestoreTypeName(v)
    /\ CASE v.kind = "timestampValue" ->
               /\ FromString(ParseText(r.value)) = FromString(ParseText(v.value))
               /\ r.value.sep = v.value.sep /\ r.value.zone = v.value.zone
         [] v.kind = "bytesValue" ->
               /\ Base64Decode(r.value) = Base64Decode(v.value)
               /\ r.value.pad = v.value.pad
         [] v.kind = "arrayValue" ->
               /\ Len(r.value) = Len(v.value)
               /\ \A i \in 1..Len(v.value) :
                     r.value[i].kind = v.value[i].kind /\ r.value[i].value = v.value[i].value
         [] OTHER -> r.value = v.value

TextKinds == {"referenceValue", "mapValue"}

HoldsText(fv) ==
    \/ fv.kind \in TextKinds /\ ~IsFirestoreVector(fv)
    \/ fv.kind = "arrayValue" /\ \E i \in 1..Len(fv.value) : fv.value[i].kind \in TextKinds

----------------------------------------------------------------------------
(* The end of a scan and its continuation fetches (firestore_scanner.cpp    *)
(* 445-497, 530-583, 629-641), on the scan executor's histories             *)

\* C28: a scan that ends without error ends with an empty page, with the
\* limit satisfied, with a page shorter than the page size it asked for or,
\* for list requests, with an empty next_page_token from the service; this
\* for `~` and downgraded scans too, so that without a limit every document
\* the service would return is emitted.
C28_EndsOnlyWhenExhausted ==
    (phase = "streaming" /\ global_state.finished) =>
        LET r == Last(requests)
        IN /\ \/ bind_data.limit # NoLimit /\ Len(emitted) >= bind_data.limit
              \/ r.ndocs = 0
              \/ r.ndocs < (IF r.page_size = 0 THEN MAX_PAGE_SIZE ELSE r.page_size)
              \/ r.op = "list" /\ global_state.next_page_token = 0
           /\ bind_data.limit = NoLimit =>
                 Len(emitted) = IF global_state.uses_run_query
                                THEN Cardinality(service.matching)
                                ELSE service.ndocs

\* a run_query request that came back with fewer documents than it asked for
ShortRunQueryPage(r) == r.op = "run_query" /\ r.ok /\ r.ndocs < r.page_size

\* C29: under cursor discipline no run_query request follows a run_query
\* page shorter than the page size asked for, and the pull after that page's
\* rows ends the scan without a request; a continuation request follows only
\* a page of at least page_size documents whose rows have all been written
\* out (and reach the host unless a later fetch of the pull fails), from its
\* last document on.
C29_ShortPageEndsCursorScan ==
    /\ [](/\ \A i \in 1..Len(requests) :
                ShortRunQueryPage(requests[i]) => i = Len(requests)
          /\ \A j \in 2..Len(requests) :
                (requests[j].op = "run_query" /\ IsContinuation(requests[j])) =>
                   /\ requests[j - 1].op = "run_query" /\ requests[j - 1].ok
                   /\ requests[j - 1].ndocs >= requests[j - 1].page_size
                   /\ \E k \in 1..Len(fetched) :
                         /\ fetched[k] = requests[j].cursor
                         /\ phase # "scan_error" => Len(emitted) >= k
                         /\ requests[j].ok => Len(fetched) >= k + requests[j].ndocs)
    /\ [][(/\ phase = "streaming" /\ requests # <<>>
           /\ ShortRunQueryPage(Last(requests))
           /\ emitted = fetched /\ ~global_state.finished
           /\ global_state' # global_state)
             => (requests' = requests /\ emitted' = emitted /\ global_state'.finished)]_vars

\* a filtered scan took a full page, continued from its last document, got a
\* short page, emitted it and ended
C29_Witness ==
    /\ phase = "streaming" /\ global_state.finished
    /\ bind_data.limit = NoLimit
    /\ Len(requests) = 2
    /\ requests[1].op = "run_query" /\ requests[1].cursor = 0 /\ requests[1].ok
    /\ requests[1].page_size = MAX_PAGE_SIZE /\ requests[1].ndocs = MAX_PAGE_SIZE
    /\ requests[2].op = "run_query" /\ requests[2].cursor = fetched[MAX_PAGE_SIZE]
    /\ requests[2].ndocs = 1
    /\ emitted = fetched /\ Len(emitted) = MAX_PAGE_SIZE + 1

\* the page size a list request asks for: 0 asks for the service's default
AskedPageSize(r) == IF r.page_size = 0 THEN MAX_PAGE_SIZE ELSE r.page_size

\* C30: under page-token discipline a continuation list request follows a
\* response that carried a next_page_token (a full page) and carries that
\* token; a collection whose only page exactly fills the page size costs
\* exactly one continuation fetch, which returns no rows, and the scan ends
\* without another fetch.
C30_OneContinuationAfterFullPage ==
    /\ \A j \in 2..Len(requests) :
          (requests[j].op = "list" /\ IsContinuation(requests[j])) =>
             /\ requests[j - 1].op = "list" /\ requests[j - 1].ok
             /\ requests[j - 1].ndocs = AskedPageSize(requests[j - 1])
             /\ \E k \in 1..Len(fetched) : fetched[k] = requests[j].cursor
    /\ (/\ phase = "streaming" /\ global_state.finished
        /\ bind_data.limit = NoLimit
        /\ requests[1] = Req("list", MAX_PAGE_SIZE, 0, TRUE, MAX_PAGE_SIZE)
        /\ service.ndocs = MAX_PAGE_SIZE)
          => requests = <<Req("list", MAX_PAGE_SIZE, 0, TRUE, MAX_PAGE_SIZE),
                          Req("list", MAX_PAGE_SIZE, MAX_PAGE_SIZE, TRUE, 0)>>

----------------------------------------------------------------------------
(***************************************************************************)
(* The structured query of a filtered scan and of its continuations         *)
(* (firestore_scanner.cpp 364-440, 530-549): scans with range, inequality   *)
(* and null-test predicates, with and without a caller order_by.            *)
(***************************************************************************)

MaxQueryExprs == 2   \* length of the filter vector of the explored queries

\* the predicates of the explored queries, on the fields a, b and c
QueryExprs ==
    {Cmp("COMPARE_EQUAL", 1, FALSE), Cmp("COMPARE_NOTEQUAL", 1, FALSE),
     Cmp("COMPARE_LESSTHAN", 2, FALSE), Cmp("COMPARE_GREATERTHAN", 2, TRUE),
     Cmp("COMPARE_NOTEQUAL", 3, FALSE), NullTest("OPERATOR_IS_NOT_NULL", 3)}

\* the order_by named parameter of the explored queries
OrderStrings == {NoOrderBy, <<"b">>, <<"b", " ", "DESC">>}

\* query inputs: any filter vector, a catalog with or without the composite
\* index on (a, b), a collection of a full page or a full page and one more
InitQuery ==
    /\ LockIdle
    /\ filters \in SeqsUpTo(QueryExprs, MaxQueryExprs)
    /\ get = [column_ids |-> <<0, 1, 2, 3>>, file_filters |-> <<>>]
    /\ \E listed \in {<<>>, <<Index(<<"a", "b", "__name__">>, "COLLECTION", "READY")>>} :
          server_indexes = [listed |-> listed, default_enabled |-> TRUE]
    /\ \E collection \in Collections, limit \in {NoLimit, MAX_PAGE_SIZE + 1},
          order_by \in OrderStrings :
          ScanStartOrdered(collection, limit, order_by)
    /\ \E n \in MAX_PAGE_SIZE..(MAX_PAGE_SIZE + 1) :
          service = [ndocs |-> n, matching |-> 1..n]
    /\ WriteIdle
    /\ AuthIdle /\ CacheIdle /\ CredIdle /\ CallIdle /\ now = 0

SpecQuery == InitQuery /\ [][NextScan]_vars

\* a runQuery request that carries a cursor
IsCursorRequest(r) == r.op = "run_query" /\ r.startAt # <<>>

RECURSIVE FetchedBefore(_)
\* the number of documents the service returned before request j
FetchedBefore(j) ==
    IF j <= 1 THEN 0 ELSE FetchedBefore(j - 1) + requests[j - 1].ndocs

\* Firestore matches the values of a cursor with the orderBy clauses by
\* position: the clause the last cursor value of request r falls on
CursorClause(r) == r.query.orderBy[Len(r.startAt.values)]

\* C31: every cursor continuation request is the structured query of the
\* first page (where, orderBy and limit unchanged) plus
\* startAt = {values: [reference(last document name)], before: false}, and
\* the orderBy clause its single cursor value is matched with by position is
\* __name__, with inequality fields or a caller order_by present too.
C31_CursorKeyedOnName ==
    \A j \in 1..Len(requests) :
       IsCursorRequest(requests[j]) =>
          /\ j > 1 /\ requests[j].query = requests[1].query
          /\ requests[j].startAt =
                StartAt(ReferenceValue(fetched[FetchedBefore(j)]))
          /\ CursorClause(requests[j]).fieldPath = "__name__"

----------------------------------------------------------------------------
(* Termination of a scan (firestore_scanner.cpp 495-499, 507-530, 629-642): *)
(* the host calls bind, the hook, init and then pulls until a pull returns  *)
(* no row, so every callback that can run eventually runs.                  *)

SpecScanLive == InitScan /\ [][NextScan]_vars /\ WF_vars(NextScan)

\* C32: every scan of a finite collection that is pulled again and again,
\* the service returning each document at most once, eventually sets
\* finished unless a fetch fails; once finished, a pull emits no row, issues
\* no request and leaves the scan finished.
C32_ScanEndsAndStaysEnded ==
    /\ (phase = "streaming") ~> (global_state.finished \/ phase = "scan_error")
    /\ [][(phase = "streaming" /\ global_state.finished)
             => (/\ emitted' = emitted /\ requests' = requests /\ fetched' = fetched
                 /\ global_state' = global_state /\ phase' = phase)]_vars

\* a scan over more than one page has ended with every document emitted
C32_Witness ==
    /\ phase = "streaming" /\ global_state.finished
    /\ service.ndocs > MAX_PAGE_SIZE
    /\ Len(requests) >= 2
    /\ \A i \in 1..Len(requests) : requests[i].ok
    /\ Len(emitted) = service.ndocs

----------------------------------------------------------------------------
(* The paths of the ids of update_batch and delete_batch                    *)
(* (firestore_writer.cpp 596-648, 750-799), on the write log                *)

\* the number of places the id at position p has in successful batch writes
InSuccessfulBatches(p) ==
    Cardinality({<<j, k>> \in (1..Len(wlog)) \X (1..BATCH_SIZE) :
                    /\ wlog[j].kind = "batch" /\ wlog[j].outcome = "ok"
                    /\ k <= Len(wlog[j].ids) /\ wlog[j].ids[k] = p})

\* the individual calls issued for the id at position p
IndividualCalls(p) ==
    {j \in 1..Len(wlog) : wlog[j].kind \in {"update", "delete"} /\ wlog[j].ids = <<p>>}

\* C33: in update_batch and delete_batch, whatever the ids and the batch
\* outcomes, no id is in a successful batch write and also issued
\* individually, or applied twice; an individual call comes after a denied
\* batch write; and when the operation returns its count every id has gone
\* exactly one way: in one successful batch write or in one individual call.
C33_EachIdOnePath ==
    wr.op \in {"update_batch", "delete_batch"} =>
       /\ \A p \in 1..wr.n :
             /\ InSuccessfulBatches(p) + Cardinality(IndividualCalls(p)) <= 1
             /\ wr.count_emitted =>
                   InSuccessfulBatches(p) + Cardinality(IndividualCalls(p)) = 1
             /\ \A j \in IndividualCalls(p) :
                   \E b \in 1..(j - 1) : Denied(b)

\* an update_batch whose first batch write succeeded and whose second was
\* denied has returned its count: the later ids went out one by one
C33_Witness ==
    /\ wr.op = "update_batch" /\ wr.count_emitted
    /\ wr.n > 2 * BATCH_SIZE
    /\ Len(wlog) > 2
    /\ wlog[1].kind = "batch" /\ wlog[1].outcome = "ok"
    /\ Denied(2)
    /\ \A p \in (BATCH_SIZE + 1)..wr.n : Cardinality(IndividualCalls(p)) = 1

----------------------------------------------------------------------------
(***************************************************************************)
(* The document a write targets, in a batch write and in the individual     *)
(* call that replaces it (firestore_writer.cpp 128-155, 205-220, 600-644,   *)
(* 765-795; firestore_client.cpp 50-81, 301-366).  A string is the sequence *)
(* of its words, with "/" and a leading "~" as words of their own, so that  *)
(* concatenation, substr(1) and rfind('/') are computed as the source does. *)
(***************************************************************************)

Slash == <<"/">>

\* the collections and document ids of the explored writes: a plain and a
\* `~` collection, ids of one segment and ids that are relative paths
WriteCollections == {<<"users">>, <<"~", "users">>}
WriteDocumentIds == {<<"u1">>, <<"users", "/", "u1">>,
                     <<"orgs", "/", "o1", "/", "users", "/", "u1">>}
AuthTypes == {"SERVICE_ACCOUNT", "API_KEY"}

\* ResolveDocumentPath (declared in firestore_client.hpp): for a `~`
\* collection the document id is the full relative path, for a plain one the
\* path is collection/document_id
ResolveDocumentPath(collection, document_id) ==
    IF IsCollectionGroup(collection)
    THEN [is_collection_group |-> TRUE, document_path |-> document_id]
    ELSE [is_collection_group |-> FALSE,
          document_path |-> collection \o Slash \o document_id]

\* doc_path of a batch write operation
BatchDocPath(creds, collection, doc_id) ==
    <<"projects", "/", creds.project_id, "/", "databases", "/", creds.database_id,
      "/", "documents", "/">> \o ResolveDocumentPath(collection, doc_id).document_path

\* BuildBaseUrl, below the host and API version: FIRESTORE_BASE_URL
BuildBaseUrl(creds) ==
    <<"projects", "/", creds.project_id, "/", "databases", "/", creds.database_id,
      "/", "documents">>

\* GetUrlSuffix: the key parameter of API-key requests
GetUrlSuffix(creds) == IF creds.type = "API_KEY" THEN <<"?key">> ELSE <<>>

\* BuildUrl: the resource below the documents root, then the suffix
BuildUrl(creds, path) ==
    [resource |-> BuildBaseUrl(creds)
                     \o (IF path # <<>> THEN (IF path[1] # "/" THEN Slash ELSE <<>>) \o path
                         ELSE <<>>),
     params |-> GetUrlSuffix(creds)]

\* UpdateDocument / DeleteDocument: PATCH or DELETE of collection/document_id
DocumentUrl(creds, collection, document_id) ==
    BuildUrl(creds, collection \o Slash \o document_id)

\* CreateDocument with an id: POST to the collection with documentId=id
CreateUrl(creds, collection, document_id) ==
    LET url == BuildUrl(creds, collection)
    IN [url EXCEPT !.params = @ \o <<"documentId">> \o document_id]

\* doc_path.rfind('/'), 0 for npos
RFindSlash(doc_path) ==
    LET hits == {i \in 1..Len(doc_path) : doc_path[i] = "/"}
    IN IF hits = {} THEN 0 ELSE CHOOSE i \in hits : \A j \in hits : j <= i

\* the id the insert fallback takes back out of the buffered operation
FallbackDocId(doc_path) == SubSeq(doc_path, RFindSlash(doc_path) + 1, Len(doc_path))

\* the document a request is about: the resource of a PATCH or DELETE, the
\* collection resource and the documentId parameter of a POST
TargetOf(op, url, document_id) ==
    IF op = "create" THEN url.resource \o Slash \o document_id ELSE url.resource

\* the operation is put into the batch buffer
BufferWriteOp ==
    /\ input.fn = "write" /\ output.pc = "none"
    /\ output' = [pc |-> "buffered",
                  name |-> BatchDocPath(input.credentials, input.collection,
                                        input.document_id)]
    /\ UNCHANGED input
    /\ CallFrame

\* the batch write was denied: the permission handler issues the individual
\* call for the buffered operation
IndividualCall ==
    /\ input.fn = "write" /\ output.pc = "buffered"
    /\ LET doc_id == IF input.op = "create" THEN FallbackDocId(output.name)
                     ELSE input.document_id
           url == IF input.op = "create"
                  THEN CreateUrl(input.credentials, input.collection, doc_id)
                  ELSE DocumentUrl(input.credentials, input.collection, doc_id)
       IN output' = [pc |-> "individual", name |-> output.name, url |-> url,
                     target |-> TargetOf(input.op, url, doc_id)]
    /\ UNCHANGED input
    /\ CallFrame

InitWritePath ==
    /\ LockIdle
    /\ ScanIdle /\ WriteIdle /\ AuthIdle /\ CacheIdle /\ CredIdle /\ now = 0
    /\ \E op \in {"create", "update", "delete"}, collection \in WriteCollections,
          document_id \in WriteDocumentIds, project_id \in ProjectIds,
          database_id \in DatabaseIds, type \in AuthTypes :
          input = [fn |-> "write", op |-> op, collection |-> collection,
                   document_id |-> document_id,
                   credentials |-> [project_id |-> project_id,
                                    database_id |-> database_id, type |-> type]]
    /\ output = [pc |-> "none"]

NextWritePath ==
    \/ BufferWriteOp
    \/ IndividualCall

SpecWritePath == InitWritePath /\ [][NextWritePath]_vars

\* the path the claim gives the document d of collection c
ClaimedPath(creds, c, d) ==
    <<"projects", "/", creds.project_id, "/", "databases", "/", creds.database_id,
      "/", "documents", "/">>
        \o (IF c[1] = "~" THEN d ELSE c \o Slash \o d)

\* C34: for every collection c, plain or `~`, and document id d, the
\* individual create, update or delete call issued after a downgrade targets
\* the document path of the batch operation it replaces:
\* projects/P/databases/D/documents/{d} when c begins with `~`, and
\* .../documents/{c}/{d} otherwise.
C34_IndividualCallSamePath ==
    output.pc = "individual" =>
        /\ output.name = ClaimedPath(input.credentials, input.collection,
                                     input.document_id)
        /\ output.target = output.name

----------------------------------------------------------------------------
(***************************************************************************)
(* Threads inside GetFirestoreCredentialsFromSecret while secrets are       *)
(* created and dropped (firestore_secrets.cpp 19-37, 205-320).  A thread's  *)
(* steps are the stretches between its accesses to the secret manager and   *)
(* its acquisitions of credentials_cache_mutex; a stretch under the mutex   *)
(* that touches nothing but the cache is one step.                          *)
(***************************************************************************)

MaxThreads == 2      \* threads resolving credentials at the same time
MaxLookups == 2      \* calls of one thread in one behaviour

Threads == 1..MaxThreads

\* the secrets the explored sessions create
LockSecrets ==
    {[auth_type |-> "api_key",
      database_id |-> [kind |-> "VARCHAR", value |-> "(default)", list |-> {}]]}

\* a thread outside the function
IdleThread(ncalls) ==
    [pc |-> "idle", ncalls |-> ncalls, cache_key |-> <<>>, database_id |-> "none",
     auth_type |-> "none", holds |-> FALSE, relocked |-> FALSE, result |-> "none"]

\* what these threads leave alone
LockFrame == UNCHANGED <<pushVars, scanVars, writeVars, authVars, cacheVars, callVars,
                         secret_store, resolved, stored_document, connected_databases>>

\* entry, with no target database: the first LookupSecret, then the
\* database id and the cache key of the secret found
LookupSecret(t) ==
    /\ threads[t].pc = "idle" /\ threads[t].ncalls < MaxLookups
    /\ IF secret_store.secrets = {}
       THEN threads' = [threads EXCEPT ![t].pc = "purge", ![t].ncalls = @ + 1]
       ELSE LET secret == CHOOSE x \in secret_store.secrets : TRUE
                database_id ==
                    IF secret.database_id.kind = "VARCHAR" /\ secret.database_id.value # "*"
                    THEN secret.database_id.value
                    ELSE "(default)"
            IN threads' = [threads EXCEPT
                              ![t].pc = "lock_find", ![t].ncalls = @ + 1,
                              ![t].database_id = database_id,
                              ![t].auth_type = secret.auth_type,
                              ![t].cache_key = <<"secret:", secret.auth_type, ":", database_id>>]
    /\ UNCHANGED <<credentials_cache, credentials_cache_mutex>>
    /\ LockFrame

\* std::lock_guard<std::mutex> lock(credentials_cache_mutex) of the cache
\* check: the thread waits until the mutex is free
LockForFind(t) ==
    /\ threads[t].pc = "lock_find"
    /\ credentials_cache_mutex = 0
    /\ credentials_cache_mutex' = t
    /\ threads' = [threads EXCEPT ![t].pc = "find", ![t].holds = TRUE]
    /\ UNCHANGED credentials_cache
    /\ LockFrame

\* the cache check under the mutex: on a hit the secret is looked up again,
\* and the cached record returned if it is still there; if it has been
\* dropped PurgeSecretCredentialsCache is called with the mutex held.  On a
\* miss the scope ends and the record is built.
FindInCache(t) ==
    /\ threads[t].pc = "find"
    /\ IF threads[t].cache_key \in DOMAIN credentials_cache
       THEN IF secret_store.secrets = {}
            THEN /\ threads' = [threads EXCEPT ![t].pc = "purge"]
                 /\ UNCHANGED credentials_cache_mutex
            ELSE /\ threads' = [threads EXCEPT ![t].pc = "done", ![t].holds = FALSE,
                                               ![t].result = "hit"]
                 /\ credentials_cache_mutex' = 0
       ELSE /\ threads' = [threads EXCEPT ![t].pc = "lock_store", ![t].holds = FALSE]
            /\ credentials_cache_mutex' = 0
    /\ UNCHANGED credentials_cache
    /\ LockFrame

\* the outcomes of locking a std::mutex the thread already owns, which the
\* standard leaves undefined: the thread blocks for ever, or lock() throws
\* std::system_error (resource_deadlock_would_occur)
RelockOutcomes == {"deadlocked", "system_error"}

\* PurgeSecretCredentialsCache as a thread runs it: its own lock_guard, the
\* erase loop, the release
PurgeAsThread(t) ==
    /\ threads[t].pc = "purge"
    /\ IF credentials_cache_mutex = t
       THEN /\ \E outcome \in RelockOutcomes :
                  threads' = [threads EXCEPT ![t].pc = outcome, ![t].relocked = TRUE]
            /\ UNCHANGED <<credentials_cache, credentials_cache_mutex>>
       ELSE /\ credentials_cache_mutex = 0
            /\ credentials_cache' = PurgeSecretCredentialsCache(credentials_cache)
            /\ threads' = [threads EXCEPT ![t].pc = "done", ![t].result = "nullptr"]
            /\ UNCHANGED credentials_cache_mutex
    /\ LockFrame

\* the record is built and stored under the mutex
StoreInCache(t) ==
    /\ threads[t].pc = "lock_store"
    /\ credentials_cache_mutex = 0
    /\ credentials_cache' =
          Store(credentials_cache, threads[t].cache_key,
                NewCredentials(IF threads[t].auth_type = "service_account"
                               THEN "SERVICE_ACCOUNT" ELSE "API_KEY",
                               "secret", threads[t].database_id))
    /\ threads' = [threads EXCEPT ![t].pc = "done", ![t].result = "built"]
    /\ UNCHANGED credentials_cache_mutex
    /\ LockFrame

\* the function returns, or the exception leaves it: the lock_guards of the
\* scopes left release the mutex
LeaveFunction(t) ==
    /\ threads[t].pc \in {"done", "system_error"}
    /\ credentials_cache_mutex' =
          IF threads[t].holds THEN 0 ELSE credentials_cache_mutex
    /\ threads' = [threads EXCEPT ![t] = IdleThread(threads[t].ncalls)]
    /\ UNCHANGED credentials_cache
    /\ LockFrame

\* CREATE SECRET / DROP SECRET from another session
CreateOrDropSecret ==
    \E secrets \in {{}} \cup {{x} : x \in LockSecrets} : SetSecrets(secrets)

InitSecretLock ==
    /\ ScanIdle /\ WriteIdle /\ AuthIdle /\ CacheIdle /\ CredIdle /\ CallIdle /\ now = 0
    /\ threads = [t \in Threads |-> IdleThread(0)]
    /\ credentials_cache_mutex = 0
    /\ stored_document = NoDocument
    /\ connected_databases = <<>>

NextSecretLock ==
    \/ \E t \in Threads : LookupSecret(t)
    \/ \E t \in Threads : LockForFind(t)
    \/ \E t \in Threads : FindInCache(t)
    \/ \E t \in Threads : PurgeAsThread(t)
    \/ \E t \in Threads : StoreInCache(t)
    \/ \E t \in Threads : LeaveFunction(t)
    \/ CreateOrDropSecret

SpecSecretLock == InitSecretLock /\ [][NextSecretLock]_vars

\* C35: no execution path acquires credentials_cache_mutex while the same
\* thread already holds it: when a cached secret credential is found but the
\* secret has meanwhile been dropped, GetFirestoreCredentialsFromSecret
\* returns without self-deadlock, for every interleaving of credential
\* resolution with secret creation and removal.
C35_NoSelfDeadlock ==
    \A t \in Threads :
       /\ ~threads[t].relocked
       /\ threads[t].pc # "deadlocked"
       /\ (threads[t].pc = "purge" => credentials_cache_mutex # t)


----------------------------------------------------------------------------
(* firestore_array_append from two sessions at once.                        *)
(* FirestoreClient::ArrayTransform with ARRAY_APPEND reads the document,    *)
(* extends the array in memory and writes the field back with a PATCH;      *)
(* the two requests are separate steps, and another session's requests can  *)
(* fall between them.                                                        *)

\* the element lists the calls pass
AppendElements == {<<"a">>, <<"b">>, <<"a", "b">>}

\* a session that has not called yet; each session calls once
IdleAppender ==
    [pc |-> "idle", elements |-> <<>>, read_at |-> 0, current_array |-> <<>>]

\* the array sent back: what was read, then the new elements
WrittenBackOntoStored(stored, current_array, elements) ==
    ExtendedArray(CurrentArray(stored), elements)

WrittenBack(stored, current_array, elements) ==
    ExtendedArray(current_array, elements)

\* what these sessions leave alone
AppendFrame == UNCHANGED <<pushVars, scanVars, writeVars, authVars, cacheVars, credVars,
                           callVars, credentials_cache_mutex, connected_databases>>

\* GetDocument and the extraction of the current array; read_at is the
\* document's update time as read
ReadForAppend(t) ==
    /\ threads[t].pc = "idle"
    /\ \E elements \in AppendElements :
          threads' = [threads EXCEPT
                         ![t].pc = "read",
                         ![t].elements = elements,
                         ![t].read_at = stored_document.update_time,
                         ![t].current_array = CurrentArray(stored_document)]
    /\ UNCHANGED stored_document
    /\ AppendFrame

\* UpdateDocument with the field in the update mask: the server replaces
\* the field with the array sent
WriteForAppend(t) ==
    /\ threads[t].pc = "read"
    /\ stored_document' =
          [stored_document EXCEPT
              !.kind = "array",
              !.values = WrittenBack(stored_document, threads[t].current_array,
                                     threads[t].elements),
              !.update_time = @ + 1]
    /\ threads' = [threads EXCEPT ![t].pc = "written"]
    /\ AppendFrame

\* the call returns
ReturnFromAppend(t) ==
    /\ threads[t].pc = "written"
    /\ threads' = [threads EXCEPT ![t].pc = "returned"]
    /\ UNCHANGED stored_document
    /\ AppendFrame

\* two sessions about to append to one field of one existing document
InitAppend ==
    /\ ScanIdle /\ WriteIdle /\ AuthIdle /\ CacheIdle /\ CredIdle /\ CallIdle /\ now = 0
    /\ threads = [t \in Threads |-> IdleAppender]
    /\ credentials_cache_mutex = 0
    /\ connected_databases = <<>>
    /\ \E doc \in Documents \ {NoDocument} :
          stored_document = [exists |-> TRUE, kind |-> doc.kind, values |-> doc.values,
                             update_time |-> 0]

NextAppend ==
    \/ \E t \in Threads : ReadForAppend(t)
    \/ \E t \in Threads : WriteForAppend(t)
    \/ \E t \in Threads : ReturnFromAppend(t)

SpecAppend == InitAppend /\ [][NextAppend]_vars

\* both calls have read the same version of the document and both have
\* written, and theirs are the only writes since: both reads came before
\* either write
BothReadThenBothWrote(t, u) ==
    /\ t # u
    /\ threads[t].pc = "written" /\ threads[u].pc = "written"
    /\ threads[t].read_at = threads[u].read_at
    /\ stored_document.update_time = threads[t].read_at + 2

\* C36: array_append is a read-modify-write in two requests; when two calls
\* on the same field have both read before either wrote, the array stored
\* after both writes is what was read followed by the elements of one call
\* only, the other call's elements being lost
C36_LostAppend ==
    \A t, u \in Threads :
       BothReadThenBothWrote(t, u) =>
          /\ threads[t].current_array = threads[u].current_array
          /\ CurrentArray(stored_document) \in
                {threads[t].current_array \o threads[t].elements,
                 threads[u].current_array \o threads[u].elements}
          /\ Len(CurrentArray(stored_document)) <
                Len(threads[t].current_array) + Len(threads[t].elements)
                   + Len(threads[u].elements)

\* two calls with different elements interleaved that way on a field that
\* held one value: the first call's element is gone
C36_Witness ==
    /\ BothReadThenBothWrote(1, 2)
    /\ threads[1].elements = <<"a">> /\ threads[2].elements = <<"b">>
    /\ threads[1].current_array = <<"b">>
    /\ CurrentArray(stored_document) = <<"b", "b">>


----------------------------------------------------------------------------
(* The connected database of each session.                                  *)
(* connected_databases is a process-wide map keyed by the address of the    *)
(* session's ClientContext; firestore_connect and firestore_disconnect      *)
(* write the entry of the session that calls them, and every resolution     *)
(* reads the entry of the session it runs in.                               *)

MaxContexts == 2
MaxSessionOps == 3

\* the sessions open at the same time
Contexts == 1..MaxContexts

\* the secrets the sessions meet: for one database, or for any
SessionSecrets ==
    {x \in Secrets : x.auth_type = "api_key" /\ x.database_id.kind = "VARCHAR"
                     /\ x.database_id.value \in {"(default)", "*"}}

\* GetConnectedDatabase
GetConnectedDatabase(map, context) ==
    IF context \in DOMAIN map THEN map[context] ELSE None

\* one entry for the whole process
SetConnectedDatabaseProcessWide(map, context, database_id) ==
    [c \in Contexts |-> database_id]

\* SetConnectedDatabase
SetConnectedDatabase(map, context, database_id) ==
    [c \in DOMAIN map \cup {context} |-> IF c = context THEN database_id ELSE map[c]]

\* ClearConnectedDatabase
ClearConnectedDatabase(map, context) ==
    [c \in DOMAIN map \ {context} |-> map[c]]

\* what the session functions leave alone
SessionFrame == UNCHANGED <<pushVars, scanVars, writeVars, authVars, cacheVars, callVars,
                            threads, credentials_cache_mutex, stored_document>>

\* the record of the last call made in a session
SessionCall(op, context, database_id, status, creds) ==
    [seq |-> resolved.seq + 1, op |-> op, context |-> context,
     database_id |-> database_id, status |-> status, creds |-> creds]

\* ResolveFirestoreCredentials(context, ...) from a bind in the session
ResolveInSession(context, credentials_path, database_id) ==
    /\ resolved.seq < MaxSessionOps
    /\ LET r == ResolveCredentialsIn(GetConnectedDatabase(connected_databases, context),
                                     None, credentials_path, None, database_id, TRUE)
       IN /\ credentials_cache' = r.cache
          /\ resolved' = SessionCall("resolve", context, database_id, r.status, r.creds)
    /\ UNCHANGED <<secret_store, connected_databases>>
    /\ SessionFrame

\* firestore_connect(database_id) in the session: the resolution for the
\* database, InvalidInputException when it yields nothing, else the entry
ConnectInSession(context, database_id) ==
    /\ resolved.seq < MaxSessionOps
    /\ LET r == ResolveCredentialsIn(GetConnectedDatabase(connected_databases, context),
                                     None, None, None, database_id, TRUE)
       IN /\ credentials_cache' = r.cache
          /\ resolved' = SessionCall("connect", context, database_id,
                                     IF r.status = "none" THEN "InvalidInputException"
                                     ELSE r.status,
                                     r.creds)
          /\ connected_databases' =
                IF r.status = "ok"
                THEN SetConnectedDatabase(connected_databases, context, database_id)
                ELSE connected_databases
    /\ UNCHANGED secret_store
    /\ SessionFrame

\* firestore_disconnect() in the session
DisconnectInSession(context) ==
    /\ resolved.seq < MaxSessionOps
    /\ connected_databases' = ClearConnectedDatabase(connected_databases, context)
    /\ resolved' = SessionCall("disconnect", context, None, "ok", NoCredentials)
    /\ UNCHANGED <<credentials_cache, secret_store>>
    /\ SessionFrame

\* no session connected, any environment
InitSessions ==
    /\ ScanIdle /\ WriteIdle /\ AuthIdle /\ CacheIdle /\ CallIdle /\ now = 0
    /\ threads = <<>> /\ credentials_cache_mutex = 0 /\ stored_document = NoDocument
    /\ connected_databases = <<>>
    /\ credentials_cache = <<>>
    /\ \E env \in BOOLEAN : secret_store = [secrets |-> {}, env |-> env, connected |-> None]
    /\ resolved = [seq |-> 0, op |-> "none", context |-> 0, database_id |-> None,
                   status |-> "none", creds |-> NoCredentials]

NextSessions ==
    \/ \E context \in Contexts, credentials_path \in {None, "sa.json"},
          database_id \in {None} \cup Databases :
          ResolveInSession(context, credentials_path, database_id)
    \/ \E context \in Contexts, database_id \in Databases :
          ConnectInSession(context, database_id)
    \/ \E context \in Contexts : DisconnectInSession(context)
    \/ \E secrets \in {{}} \cup {{x} : x \in SessionSecrets} : SetSecrets(secrets)

SpecSessions == InitSessions /\ [][NextSessions]_vars

\* a call was made in some session in this step
SessionStep == resolved'.seq = resolved.seq + 1

----------------------------------------------------------------------------
(* The class of a filter: the is_equality flag the two converters set       *)
(* (ConvertDuckDBFilter on the host's table filters,                        *)
(* ConvertExpressionToFilters on its expressions) and the list              *)
(* MatchFiltersToIndexes puts the filter on.                                *)

MaxChildFilters == 2

\* the host's table filters on one column
ConstantFilter(comparison_type) ==
    [filter_type |-> "CONSTANT_COMPARISON", comparison_type |-> comparison_type,
     child_filters |-> <<>>]
OtherFilter(filter_type) ==
    [filter_type |-> filter_type, comparison_type |-> "", child_filters |-> <<>>]
ConjunctionAndFilter(child_filters) ==
    [filter_type |-> "CONJUNCTION_AND", comparison_type |-> "",
     child_filters |-> child_filters]

ComparisonTypes ==
    {"COMPARE_EQUAL", "COMPARE_NOTEQUAL", "COMPARE_LESSTHAN", "COMPARE_LESSTHANOREQUALTO",
     "COMPARE_GREATERTHAN", "COMPARE_GREATERTHANOREQUALTO"}

LeafFilters ==
    {ConstantFilter(t) : t \in ComparisonTypes \cup {"COMPARE_DISTINCT_FROM"}}
    \cup {OtherFilter(t) : t \in {"IS_NULL", "IS_NOT_NULL", "CONJUNCTION_OR"}}

TableFilters ==
    LeafFilters
    \cup {ConjunctionAndFilter(c) : c \in SeqsUpTo(LeafFilters, MaxChildFilters) \ {<<>>}}

\* ConvertDuckDBFilter on a leaf
ConvertLeafFilter(field_name, filter) ==
    CASE filter.filter_type = "CONSTANT_COMPARISON" ->
            ComparisonFilter(field_name, filter.comparison_type)
      [] filter.filter_type = "IS_NULL" -> <<UnaryFilter(field_name, "IS_NULL")>>
      [] filter.filter_type = "IS_NOT_NULL" -> <<UnaryFilter(field_name, "IS_NOT_NULL")>>
      [] OTHER -> <<>>

RECURSIVE ConvertChildFilters(_, _, _)
\* the loop over a conjunction's children, from the i-th on
ConvertChildFilters(field_name, child_filters, i) ==
    IF i > Len(child_filters) THEN <<>>
    ELSE ConvertLeafFilter(field_name, child_filters[i])
            \o ConvertChildFilters(field_name, child_filters, i + 1)

\* ConvertDuckDBFilter
ConvertDuckDBFilter(field_name, filter) ==
    IF filter.filter_type = "CONJUNCTION_AND"
    THEN ConvertChildFilters(field_name, filter.child_filters, 1)
    ELSE ConvertLeafFilter(field_name, filter)

\* the host's expressions handed to the other converter
ClassExprs ==
    {Cmp(t, col, rev) : t \in ComparisonTypes, col \in 1..2, rev \in BOOLEAN}
    \cup {NullTest(t, col) : t \in {"OPERATOR_IS_NULL", "OPERATOR_IS_NOT_NULL"}, col \in 1..2}
    \cup {Disjunction(k, col, FALSE) : k \in 1..2, col \in 1..2}

\* one filter of the host, of either kind
InitClassify ==
    /\ LockIdle
    /\ ScanIdle /\ WriteIdle /\ AuthIdle /\ CacheIdle /\ CredIdle /\ now = 0
    /\ \/ \E field_name \in Fields, filter \in TableFilters :
             input = [fn |-> "ConvertDuckDBFilter", field_name |-> field_name,
                      filter |-> filter]
       \/ \E expr \in ClassExprs :
             input = [fn |-> "ConvertExpressionToFilters", field_name |-> "",
                      filter |-> expr]
    /\ output = [pc |-> "start"]

\* the converter runs
ConvertFilter ==
    /\ output.pc = "start"
    /\ output' = [pc |-> "converted",
                  filters |-> IF input.fn = "ConvertDuckDBFilter"
                              THEN ConvertDuckDBFilter(input.field_name, input.filter)
                              ELSE ConvertExpressionToFilters(input.filter, <<0, 1, 2, 3>>)]
    /\ UNCHANGED input
    /\ CallFrame

\* MatchFiltersToIndexes separates the candidates
SeparateFilters ==
    /\ output.pc = "converted"
    /\ output' = [pc |-> "separated", filters |-> output.filters,
                  equality_filters |-> EqualityFilters(output.filters),
                  range_filters |-> RangeFilters(output.filters)]
    /\ UNCHANGED input
    /\ CallFrame

NextClassify ==
    \/ ConvertFilter
    \/ SeparateFilters

SpecClassify == InitClassify /\ [][NextClassify]_vars

\* C38: the converters flag a filter as equality exactly when it is
\* equality-class (=, IN, IS_NULL), and MatchFiltersToIndexes puts exactly
\* those on its equality list and all others (!=, NOT_IN, IS_NOT_NULL, <,
\* <=, >, >=) on its range list.
C38_ClassesAsSpecified ==
    output.pc = "separated" =>
       /\ \A i \in 1..Len(output.filters) :
             output.filters[i].is_equality <=> IsEqualityClass(output.filters[i])
       /\ \A i \in 1..Len(output.equality_filters) :
             IsEqualityClass(output.equality_filters[i])
       /\ \A i \in 1..Len(output.range_filters) :
             ~IsEqualityClass(output.range_filters[i])


----------------------------------------------------------------------------
(* The orderBy of a structured query built without a caller order_by *)

\* the position of the first inequality-class filter on the field
FirstInequalityAt(pushed, field) ==
    CHOOSE i \in 1..Len(pushed) :
       /\ pushed[i].field_path = field /\ ~IsEqualityClass(pushed[i])
       /\ \A j \in 1..(i - 1) :
             ~(pushed[j].field_path = field /\ ~IsEqualityClass(pushed[j]))

\* C39: without a caller order_by, the orderBy of every structured query
\* ends with __name__ ascending; before it stand exactly the fields that
\* carry a pushed inequality-class filter, each once, ascending, in the order
\* of their first such filter in the pushed list; a field with equality-class
\* filters only is not listed.
C39_OrderByInequalityFields ==
    bind_data.order_by = NoOrderBy =>
       \A j \in 1..Len(requests) :
          requests[j].op = "run_query" =>
             LET orderBy == requests[j].query.orderBy
                 pushed == requests[j].query.where
                 n == Len(orderBy)
             IN /\ n >= 1 /\ orderBy[n] = OrderClause("__name__", "ASCENDING")
                /\ \A i \in 1..n : orderBy[i].direction = "ASCENDING"
                /\ \A i, k \in 1..n : i # k => orderBy[i].fieldPath # orderBy[k].fieldPath
                /\ {orderBy[i].fieldPath : i \in 1..(n - 1)} = InequalityFields(pushed)
                /\ \A i, k \in 1..(n - 1) :
                      i < k => FirstInequalityAt(pushed, orderBy[i].fieldPath)
                                  < FirstInequalityAt(pushed, orderBy[k].fieldPath)

\* a query with inequality filters on c and on a, pushed in that order
C39_Witness ==
    /\ bind_data.order_by = NoOrderBy
    /\ Len(requests) >= 1 /\ requests[1].op = "run_query"
    /\ Len(requests[1].query.where) = 2
    /\ requests[1].query.orderBy =
          <<OrderClause("c", "ASCENDING"), OrderClause("a", "ASCENDING"),
            OrderClause("__name__", "ASCENDING")>>


----------------------------------------------------------------------------
(* Schema inference over a sample of documents whose fields differ in kind: *)
(* FirestoreClient::InferSchema, which the scan's bind calls, and           *)
(* InferSchemaFromDocuments.                                                *)

MaxSample == 3

\* the kinds of the sampled values, in the order std::map iterates their names
TypeNames == <<"booleanValue", "integerValue", "nullValue", "stringValue">>
TypeRank(type_name) == CHOOSE i \in 1..Len(TypeNames) : TypeNames[i] = type_name

\* the fields of the sampled documents; a document maps each to the kind of
\* its value, or to "absent"
SampleFields == {"a", "b"}
SampleDocuments == [SampleFields -> Range(TypeNames) \cup {"absent"}]

\* FirestoreTypeToDuckDB on the sampled kinds
FirestoreTypeToDuckDB(firestore_type) ==
    CASE firestore_type = "integerValue" -> LogicalType("BIGINT", "")
      [] firestore_type = "booleanValue" -> LogicalType("BOOLEAN", "")
      [] OTHER -> LogicalType("VARCHAR", "")

RECURSIVE SortedFields(_)
\* the keys of a std::map<std::string, ...> in iteration order
SortedFields(S) ==
    IF S = {} THEN <<>>
    ELSE <<FirstField(S)>> \o SortedFields(S \ {FirstField(S)})

\* the fields that occur in the sample
FieldsSeen(documents) ==
    {f \in SampleFields : \E i \in 1..Len(documents) : documents[i][f] # "absent"}

\* field_types[field_name]: the kind of the field in the first document
\* that has it
FirstSeenType(documents, field_name) ==
    documents[CHOOSE i \in 1..Len(documents) :
                 /\ documents[i][field_name] # "absent"
                 /\ \A j \in 1..(i - 1) : documents[j][field_name] = "absent"][field_name]

\* FirestoreClient::InferSchema on the documents of the sampled page
ClientInferSchema(documents) ==
    LET names == SortedFields(FieldsSeen(documents))
    IN [k \in 1..Len(names) |->
           [name |-> names[k],
            type |-> FirestoreTypeToDuckDB(FirstSeenType(documents, names[k]))]]

\* field_type_counts[field_name][type_name] over the first sample_size
\* documents
TypeCount(document_fields, sample_size, field_name, type_name) ==
    Cardinality({i \in 1..Min2(Len(document_fields), sample_size) :
                    document_fields[i][field_name] = type_name})

RECURSIVE BestType(_, _, _, _, _, _)
\* the loop over type_counts in key order: a kind replaces the best so far
\* when it is not nullValue and its count is strictly greater
BestType(document_fields, sample_size, field_name, k, best_type, best_count) ==
    IF k > Len(TypeNames) THEN best_type
    ELSE LET cnt == TypeCount(document_fields, sample_size, field_name, TypeNames[k])
         IN IF TypeNames[k] # "nullValue" /\ cnt > best_count
            THEN BestType(document_fields, sample_size, field_name, k + 1, TypeNames[k], cnt)
            ELSE BestType(document_fields, sample_size, field_name, k + 1, best_type,
                          best_count)

\* InferSchemaFromDocuments
InferSchemaFromDocuments(document_fields, sample_size) ==
    LET sampled == SubSeq(document_fields, 1, Min2(Len(document_fields), sample_size))
        names == SortedFields(FieldsSeen(sampled))
    IN [k \in 1..Len(names) |->
           [name |-> names[k],
            type |-> FirestoreTypeToDuckDB(
                        BestType(document_fields, sample_size, names[k], 1,
                                 "stringValue", 0))]]

\* a sample handed to one of the two functions
InitInfer ==
    /\ LockIdle
    /\ ScanIdle /\ WriteIdle /\ AuthIdle /\ CacheIdle /\ CredIdle /\ now = 0
    /\ \E fn \in {"InferSchema", "InferSchemaFromDocuments"},
          documents \in SeqsUpTo(SampleDocuments, MaxSample) :
          input = [fn |-> fn, documents |-> documents, sample_size |-> MaxSample]
    /\ output = [pc |-> "start"]

\* the function runs
InferColumns ==
    /\ output.pc = "start"
    /\ output' = [pc |-> "inferred",
                  columns |-> IF input.fn = "InferSchema"
                              THEN ClientInferSchema(input.documents)
                              ELSE InferSchemaFromDocuments(input.documents,
                                                            input.sample_size)]
    /\ UNCHANGED input
    /\ CallFrame

NextInfer == InferColumns

SpecInfer == InitInfer /\ [][NextInfer]_vars

\* the non-null kinds of a field with the highest count in the sample
MostCommonTypes(documents, field_name) ==
    LET count(t) == Cardinality({i \in 1..Len(documents) : documents[i][field_name] = t})
        kinds == {t \in Range(TypeNames) \ {"nullValue"} : count(t) > 0}
    IN {t \in kinds : \A o \in kinds : count(t) >= count(o)}

\* the kind the claim picks: the single most common one, stringValue on a tie
\* and when the field has no non-null value
MajorityType(documents, field_name) ==
    LET best == MostCommonTypes(documents, field_name)
    IN IF Cardinality(best) = 1 THEN CHOOSE t \in best : TRUE ELSE "stringValue"

\* C40: schema inference gives each field of the sample one column, in
\* field-name order, whose type is the mapping of the field's most common
\* non-null kind, stringValue on a tie, whatever the order of the documents.
C40_MajorityVariant ==
    output.pc = "inferred" =>
       LET names == SortedFields(FieldsSeen(input.documents))
       IN /\ Len(output.columns) = Len(names)
          /\ \A k \in 1..Len(names) :
                /\ output.columns[k].name = names[k]
                /\ output.columns[k].type =
                      FirestoreTypeToDuckDB(MajorityType(input.documents, names[k]))

====
